---- MODULE Spec2Model ----
(***************************************************************************)
(* A model of the shogi rules engine and search core of packages/rust-core *)
(* (src/ai): board and position, attack tables, Zobrist hashing, move      *)
(* encoding, the move generator, do_move, the evaluator and the search.    *)
(*                                                                         *)
(* Bitboards are modelled as sets of squares (bit s set <=> s in the set). *)
(* A Zobrist hash is modelled as the set of table entries XOR-ed into it   *)
(* (XOR is symmetric difference): the 64-bit random table values are taken *)
(* to be distinct and linearly independent, a zero value is the empty set. *)
(* Option<T> is modelled as a sequence of length 0 or 1.                   *)
(***************************************************************************)
EXTENDS Integers, Sequences, FiniteSets, TLC

VARIABLES
    pos,      \* the Position
    generated, \* None, or Some(the MoveGen built for pos with the list generate_all returned)
    status,   \* "ok", or the abort that ended the run
    last,     \* None, or Some([mv, before]): the move do_move applied last and the position it was applied to
    search    \* None, or the Searcher's limits and result

vars == <<pos, generated, status, last, search>>

(***************************************************************************)
(* board.rs: colours, piece types, squares                                 *)
(***************************************************************************)
Black == 0
White == 1
Colors == {Black, White}

King == 0
Rook == 1
Bishop == 2
Gold == 3
Silver == 4
Knight == 5
Lance == 6
Pawn == 7
PieceTypes == King..Pawn

Squares == 0..80

None == <<>>
Some(x) == <<x>>
IsSome(o) == o # <<>>
Unwrap(o) == o[1]

File(sq) == sq % 9
Rank(sq) == sq \div 9
Sq(file, rank) == rank * 9 + file
OnBoard(file, rank) == file \in 0..8 /\ rank \in 0..8

Opposite(c) == IF c = Black THEN White ELSE Black

can_promote_type(pt) == pt \in {Rook, Bishop, Silver, Knight, Lance, Pawn}

NewPiece(pt, c) == [piece_type |-> pt, color |-> c, promoted |-> FALSE]
PromotedPiece(pt, c) == [piece_type |-> pt, color |-> c, promoted |-> TRUE]

to_index(piece) ==
    IF piece.promoted /\ can_promote_type(piece.piece_type)
    THEN piece.piece_type + 8
    ELSE piece.piece_type

(***************************************************************************)
(* board.rs: Bitboard helpers                                              *)
(***************************************************************************)
SetMin(S) == CHOOSE x \in S : \A y \in S : x <= y
SetMax(S) == CHOOSE x \in S : \A y \in S : x >= y
\* Bitboard::lsb / pop_lsb: the lowest set square, if any
Lsb(bb) == IF bb = {} THEN None ELSE Some(SetMin(bb))
BitNot(bb) == Squares \ bb
AllSq == [i \in 1..81 |-> i - 1]
\* the squares of a bitboard in pop_lsb order
SqSeq(bb) == SelectSeq(AllSq, LAMBDA s : s \in bb)
\* the squares of a bitboard in descending order
SqSeqDesc(bb) == LET a == SqSeq(bb) IN [i \in 1..Len(a) |-> a[Len(a) + 1 - i]]

RECURSIVE Concat(_)
Concat(ss) ==
    IF ss = <<>> THEN <<>>
    ELSE IF Len(ss) = 1 THEN ss[1]
    ELSE Concat(SubSeq(ss, 1, Len(ss) \div 2))
         \o Concat(SubSeq(ss, Len(ss) \div 2 + 1, Len(ss)))
Range(s) == {s[i] : i \in 1..Len(s)}

(***************************************************************************)
(* attacks.rs: Direction deltas and the precomputed attack tables          *)
(***************************************************************************)
North == <<0, -1>>
NorthEast == <<1, -1>>
East == <<1, 0>>
SouthEast == <<1, 1>>
South == <<0, 1>>
SouthWest == <<-1, 1>>
West == <<-1, 0>>
NorthWest == <<-1, -1>>
ORTHOGONALS == {North, East, South, West}
DIAGONALS == {NorthEast, SouthEast, SouthWest, NorthWest}

StepSet(from, dirs) ==
    {Sq(File(from) + d[1], Rank(from) + d[2]) :
        d \in {e \in dirs : OnBoard(File(from) + e[1], Rank(from) + e[2])}}

generate_king_attacks(from) ==
    StepSet(from, ({-1, 0, 1} \X {-1, 0, 1}) \ {<<0, 0>>})

generate_gold_attacks(from, color) ==
    IF color = Black
    THEN StepSet(from, {South, SouthEast, East, West, SouthWest, North})
    ELSE StepSet(from, {North, NorthEast, East, West, NorthWest, South})

generate_silver_attacks(from, color) ==
    IF color = Black
    THEN StepSet(from, {South, NorthEast, SouthEast, SouthWest, NorthWest})
    ELSE StepSet(from, {North, SouthEast, NorthEast, NorthWest, SouthWest})

generate_knight_attacks(from, color) ==
    LET rank_offset == IF color = Black THEN 2 ELSE -2
        min_rank == IF color = Black THEN 0 ELSE 2
        max_rank == IF color = Black THEN 6 ELSE 8
        new_rank == Rank(from) + rank_offset
    IN  IF new_rank >= min_rank /\ new_rank <= max_rank
        THEN (IF File(from) > 0 THEN {Sq(File(from) - 1, new_rank)} ELSE {})
             \cup (IF File(from) < 8 THEN {Sq(File(from) + 1, new_rank)} ELSE {})
        ELSE {}

generate_lance_attacks(from, color) ==
    IF color = Black
    THEN {Sq(File(from), r) : r \in (Rank(from) + 1)..8}
    ELSE {Sq(File(from), r) : r \in 0..(Rank(from) - 1)}

generate_pawn_attacks_backward(from, color) ==
    LET new_rank == IF color = Black THEN Rank(from) - 1 ELSE Rank(from) + 1
    IN  IF new_rank \in 0..8 THEN {Sq(File(from), new_rank)} ELSE {}

generate_pawn_attacks(from, color) ==
    LET new_rank == IF color = Black THEN Rank(from) + 1 ELSE Rank(from) - 1
    IN  IF new_rank \in 0..8 THEN {Sq(File(from), new_rank)} ELSE {}

king_attacks_tbl == [sq \in Squares |-> generate_king_attacks(sq)]
gold_attacks_tbl == [c \in Colors |-> [sq \in Squares |-> generate_gold_attacks(sq, c)]]
silver_attacks_tbl == [c \in Colors |-> [sq \in Squares |-> generate_silver_attacks(sq, c)]]
knight_attacks_tbl == [c \in Colors |-> [sq \in Squares |-> generate_knight_attacks(sq, c)]]
lance_attacks_tbl == [c \in Colors |-> [sq \in Squares |-> generate_lance_attacks(sq, c)]]
pawn_attacks_tbl == [c \in Colors |-> [sq \in Squares |-> generate_pawn_attacks(sq, c)]]

king_attacks(sq) == king_attacks_tbl[sq]
gold_attacks(sq, color) == gold_attacks_tbl[color][sq]
silver_attacks(sq, color) == silver_attacks_tbl[color][sq]
knight_attacks(sq, color) == knight_attacks_tbl[color][sq]
lance_attacks(sq, color) == lance_attacks_tbl[color][sq]
pawn_attacks(sq, color) == pawn_attacks_tbl[color][sq]

\* the squares along one direction up to and including the first occupied one
ray_attacks(from, dir, occupied) ==
    {Sq(File(from) + k * dir[1], Rank(from) + k * dir[2]) :
        k \in {n \in 1..8 :
                 /\ OnBoard(File(from) + n * dir[1], Rank(from) + n * dir[2])
                 /\ \A j \in 1..(n - 1) :
                       Sq(File(from) + j * dir[1], Rank(from) + j * dir[2]) \notin occupied}}

sliding_attacks(sq, occupied, piece_type) ==
    IF piece_type = Rook
    THEN UNION {ray_attacks(sq, d, occupied) : d \in ORTHOGONALS}
    ELSE IF piece_type = Bishop
    THEN UNION {ray_attacks(sq, d, occupied) : d \in DIAGONALS}
    ELSE {}

(***************************************************************************)
(* board.rs: Board, put_piece, remove_piece, piece_on, king_square         *)
(***************************************************************************)
EmptyBoard ==
    [piece_bb |-> [c \in Colors |-> [pt \in PieceTypes |-> {}]],
     occupied_bb |-> [c \in Colors |-> {}],
     all_bb |-> {},
     promoted_bb |-> {},
     squares |-> [sq \in Squares |-> None]]

put_piece(board, sq, piece) ==
    [piece_bb |-> [board.piece_bb EXCEPT ![piece.color][piece.piece_type] = @ \cup {sq}],
     occupied_bb |-> [board.occupied_bb EXCEPT ![piece.color] = @ \cup {sq}],
     all_bb |-> board.all_bb \cup {sq},
     promoted_bb |-> IF piece.promoted THEN board.promoted_bb \cup {sq}
                     ELSE board.promoted_bb,
     squares |-> [board.squares EXCEPT ![sq] = Some(piece)]]

\* a remove_piece that leaves the promoted bit of the square set
remove_piece_promoted_kept(board, sq) ==
    IF IsSome(board.squares[sq])
    THEN LET piece == Unwrap(board.squares[sq])
         IN  [piece_bb |-> [board.piece_bb EXCEPT
                               ![piece.color][piece.piece_type] = @ \ {sq}],
              occupied_bb |-> [board.occupied_bb EXCEPT ![piece.color] = @ \ {sq}],
              all_bb |-> board.all_bb \ {sq},
              promoted_bb |-> board.promoted_bb,
              squares |-> [board.squares EXCEPT ![sq] = None]]
    ELSE board

remove_piece(board, sq) ==
    IF IsSome(board.squares[sq])
    THEN LET piece == Unwrap(board.squares[sq])
         IN  [piece_bb |-> [board.piece_bb EXCEPT
                               ![piece.color][piece.piece_type] = @ \ {sq}],
              occupied_bb |-> [board.occupied_bb EXCEPT ![piece.color] = @ \ {sq}],
              all_bb |-> board.all_bb \ {sq},
              promoted_bb |-> IF piece.promoted THEN board.promoted_bb \ {sq}
                              ELSE board.promoted_bb,
              squares |-> [board.squares EXCEPT ![sq] = None]]
    ELSE board

piece_on(board, sq) == board.squares[sq]

king_square(board, color) == Lsb(board.piece_bb[color][King])

\* TLC evaluates the argument of an operator where the operator first uses
\* it; Evaluated(v) uses it at once, so that a value handed from one turn of
\* a loop to the next is computed before the next turn starts
Evaluated(v) == v = v

RECURSIVE PutAll(_, _)
\* a run of put_piece calls, one per <<square, piece>> of the sequence, in
\* order: the first half of the calls, then the second half
PutAll(board, placements) ==
    IF ~Evaluated(board) \/ placements = <<>> THEN board
    ELSE IF Len(placements) = 1
    THEN put_piece(board, placements[1][1], placements[1][2])
    ELSE PutAll(PutAll(board, SubSeq(placements, 1, Len(placements) \div 2)),
                SubSeq(placements, Len(placements) \div 2 + 1, Len(placements)))

(***************************************************************************)
(* moves.rs: the 16-bit move encoding                                      *)
(***************************************************************************)
MoveNormal(from, to, promote) ==
    to + from * 128 + (IF promote THEN 16384 ELSE 0)
MoveDrop_king_not_skipped(piece_type, to) ==
    to + (81 + piece_type) * 128 + 32768
MoveDrop(piece_type, to) ==
    to + (81 + piece_type - 1) * 128 + 32768
is_drop(mv) == (mv \div 32768) % 2 = 1
is_promote(mv) == (mv \div 16384) % 2 = 1
MoveTo(mv) == mv % 128
MoveFrom(mv) == IF is_drop(mv) THEN None ELSE Some((mv \div 128) % 128)
drop_piece_type(mv) == ((mv \div 128) % 128) - 81 + 1

(***************************************************************************)
(* zobrist.rs: the tables and the hash computed from scratch               *)
(***************************************************************************)
PieceKinds == 14
HandCountSlots == 19
Xor(a, b) == (a \ b) \cup (b \ a)

\* piece_square[color][piece_kind][sq]: defined for piece_kind < 14 only
piece_kind_in_table(piece) == to_index(piece) < PieceKinds
piece_square_hash(piece, sq) == {<<"piece", piece.color, to_index(piece), sq>>}

Min(a, b) == IF a < b THEN a ELSE b
hand_hash(color, piece_type, count) ==
    IF count = 0 THEN {}
    ELSE {<<"hand", color, piece_type - 1, Min(count, HandCountSlots - 1)>>}

side_hash(color) == IF color = Black THEN {} ELSE {<<"side">>}

HandIdx == 0..6
\* the fixed hand order Rook, Bishop, Gold, Silver, Knight, Lance, Pawn
HandType(idx) == idx + 1
hand_idx(piece_type) == IF piece_type = King THEN 0 ELSE piece_type - 1

RECURSIVE XorAll(_)
XorAll(S) == IF S = {} THEN {}
             ELSE LET x == CHOOSE y \in S : TRUE IN Xor(x, XorAll(S \ {x}))

\* zobrist_hash() reads the table for every piece on the board
zobrist_hash_defined(p) ==
    \A sq \in Squares :
        IsSome(p.board.squares[sq]) => piece_kind_in_table(Unwrap(p.board.squares[sq]))

zobrist_hash(p) ==
    LET onBoard == UNION {piece_square_hash(Unwrap(p.board.squares[sq]), sq) :
                            sq \in {s \in Squares : IsSome(p.board.squares[s])}}
        inHand == UNION {hand_hash(c, HandType(i), p.hands[c][i]) :
                            c \in Colors, i \in HandIdx}
    IN  Xor(Xor(onBoard, inHand), side_hash(p.side_to_move))

(***************************************************************************)
(* board.rs: Position                                                      *)
(***************************************************************************)
EmptyPosition ==
    [board |-> EmptyBoard,
     hands |-> [c \in Colors |-> [i \in HandIdx |-> 0]],
     side_to_move |-> Black,
     ply |-> 0,
     hash |-> {},
     history |-> <<>>]

StartPlacements ==
    [f \in 1..9 |-> <<Sq(f - 1, 2), NewPiece(Pawn, Black)>>]
    \o [f \in 1..9 |-> <<Sq(f - 1, 6), NewPiece(Pawn, White)>>]
    \o << <<Sq(0, 0), NewPiece(Lance, Black)>>, <<Sq(8, 0), NewPiece(Lance, Black)>>,
          <<Sq(0, 8), NewPiece(Lance, White)>>, <<Sq(8, 8), NewPiece(Lance, White)>>,
          <<Sq(1, 0), NewPiece(Knight, Black)>>, <<Sq(7, 0), NewPiece(Knight, Black)>>,
          <<Sq(1, 8), NewPiece(Knight, White)>>, <<Sq(7, 8), NewPiece(Knight, White)>>,
          <<Sq(2, 0), NewPiece(Silver, Black)>>, <<Sq(6, 0), NewPiece(Silver, Black)>>,
          <<Sq(2, 8), NewPiece(Silver, White)>>, <<Sq(6, 8), NewPiece(Silver, White)>>,
          <<Sq(3, 0), NewPiece(Gold, Black)>>, <<Sq(5, 0), NewPiece(Gold, Black)>>,
          <<Sq(3, 8), NewPiece(Gold, White)>>, <<Sq(5, 8), NewPiece(Gold, White)>>,
          <<Sq(4, 0), NewPiece(King, Black)>>, <<Sq(4, 8), NewPiece(King, White)>>,
          <<Sq(7, 1), NewPiece(Rook, Black)>>, <<Sq(1, 7), NewPiece(Rook, White)>>,
          <<Sq(1, 1), NewPiece(Bishop, Black)>>, <<Sq(7, 7), NewPiece(Bishop, White)>> >>

startpos ==
    LET p == [EmptyPosition EXCEPT !.board = PutAll(EmptyBoard, StartPlacements)]
    IN  [p EXCEPT !.hash = zobrist_hash(p)]

\* is_repetition(): the current hash occurs at least 3 times in history
is_repetition(p) ==
    IF Len(p.history) < 4 THEN FALSE
    ELSE Cardinality({i \in 1..Len(p.history) : p.history[i] = p.hash}) >= 3

(***************************************************************************)
(* board.rs: Position::do_move.  The result is [ok, why, pos]: ok is FALSE *)
(* when the call panics (why names the panic) and pos is then the position *)
(* before the call.                                                        *)
(***************************************************************************)
Panic(p, why) == [ok |-> FALSE, why |-> why, pos |-> p]
Done(p) == [ok |-> TRUE, why |-> "", pos |-> p]

\* a do_move ending that flips the side and forgets to count the ply
do_move_finish_no_ply(p) ==
    LET side == Opposite(p.side_to_move)
    IN  [p EXCEPT !.side_to_move = side, !.hash = Xor(@, side_hash(side))]

\* the last three statements: flip the side, XOR the side term, bump ply
do_move_finish(p) ==
    LET side == Opposite(p.side_to_move)
    IN  [p EXCEPT !.side_to_move = side,
                  !.hash = Xor(@, side_hash(side)),
                  !.ply = @ + 1]

\* a drop that puts the piece on the board and leaves the hand count as it was
do_move_drop_hand_kept(p0, mv) ==
    LET p == [p0 EXCEPT !.history = Append(@, p0.hash)]
        piece == NewPiece(drop_piece_type(mv), p.side_to_move)
    IN  Done(do_move_finish(
          [p EXCEPT !.board = put_piece(@, MoveTo(mv), piece),
                    !.hash = Xor(@, piece_square_hash(piece, MoveTo(mv)))]))

do_move_drop(p0, mv) ==
    LET p == [p0 EXCEPT !.history = Append(@, p0.hash)]
        to == MoveTo(mv)
        piece_type == drop_piece_type(mv)
        us == p.side_to_move
        piece == NewPiece(piece_type, us)
        idx == hand_idx(piece_type)
        old == p.hands[us][idx]
    IN  IF old = 0 THEN Panic(p0, "hand count underflow")
        ELSE Done(do_move_finish(
               [p EXCEPT !.board = put_piece(@, to, piece),
                         !.hands[us][idx] = old - 1,
                         !.hash = Xor(Xor(Xor(@, piece_square_hash(piece, to)),
                                          hand_hash(us, piece_type, old)),
                                      hand_hash(us, piece_type, old - 1))]))

do_move_normal(p0, mv) ==
    LET p == [p0 EXCEPT !.history = Append(@, p0.hash)]
        from == Unwrap(MoveFrom(mv))
        to == MoveTo(mv)
        us == p.side_to_move
    IN  IF ~IsSome(piece_on(p.board, from)) THEN Panic(p0, "no piece on source")
        ELSE
        LET piece == Unwrap(piece_on(p.board, from))
            b1 == remove_piece(p.board, from)
            cap == piece_on(b1, to)
            placed == IF is_promote(mv) THEN [piece EXCEPT !.promoted = TRUE] ELSE piece
        IN  IF ~piece_kind_in_table(piece) THEN Panic(p0, "zobrist index")
            ELSE IF IsSome(cap) /\ Unwrap(cap).piece_type = King
                 THEN Panic(p0, "capture king")
            ELSE IF IsSome(cap) /\ ~piece_kind_in_table(Unwrap(cap))
                 THEN Panic(p0, "zobrist index")
            ELSE IF ~piece_kind_in_table(placed) THEN Panic(p0, "zobrist index")
            ELSE
            LET h1 == Xor(p.hash, piece_square_hash(piece, from))
                captured == Unwrap(cap)
                idx == hand_idx(captured.piece_type)
                old == p.hands[us][idx]
                b2 == IF IsSome(cap) THEN remove_piece(b1, to) ELSE b1
                h2 == IF IsSome(cap)
                      THEN Xor(Xor(Xor(h1, piece_square_hash(captured, to)),
                                   hand_hash(us, captured.piece_type, old)),
                               hand_hash(us, captured.piece_type, old + 1))
                      ELSE h1
                hands2 == IF IsSome(cap)
                          THEN [p.hands EXCEPT ![us][idx] = old + 1]
                          ELSE p.hands
            IN  Done(do_move_finish(
                  [p EXCEPT !.board = put_piece(b2, to, placed),
                            !.hands = hands2,
                            !.hash = Xor(h2, piece_square_hash(placed, to))]))

do_move(p, mv) ==
    IF is_drop(mv) THEN do_move_drop(p, mv) ELSE do_move_normal(p, mv)

(***************************************************************************)
(* movegen.rs: geometry helpers                                            *)
(***************************************************************************)
Abs(x) == IF x < 0 THEN -x ELSE x
Sign(x) == IF x > 0 THEN 1 ELSE IF x < 0 THEN -1 ELSE 0
Max(a, b) == IF a > b THEN a ELSE b

is_aligned(sq1, sq2) ==
    \/ File(sq1) = File(sq2)
    \/ Rank(sq1) = Rank(sq2)
    \/ Abs(File(sq1) - File(sq2)) = Abs(Rank(sq1) - Rank(sq2))
is_aligned_rook(sq1, sq2) == File(sq1) = File(sq2) \/ Rank(sq1) = Rank(sq2)
is_aligned_bishop(sq1, sq2) ==
    /\ Abs(File(sq1) - File(sq2)) = Abs(Rank(sq1) - Rank(sq2))
    /\ File(sq1) # File(sq2)

\* between_bb steps one file and one rank at a time from sq1 and stops only
\* when it stands on sq2: it reaches sq2 exactly when the squares share a
\* file, a rank or a diagonal.  Otherwise the loop never meets sq2 (it
\* leaves the board: Square::new's debug assertion fails, or, without
\* assertions, the loop does not end), and the caller gets no result.
between_bb_returns(sq1, sq2) == is_aligned(sq1, sq2)
between_bb(sq1, sq2) ==
    LET fs == Sign(File(sq2) - File(sq1))
        rs == Sign(Rank(sq2) - Rank(sq1))
        n == Max(Abs(File(sq2) - File(sq1)), Abs(Rank(sq2) - Rank(sq1)))
    IN  {Sq(File(sq1) + k * fs, Rank(sq1) + k * rs) : k \in 1..(n - 1)}

\* ATTACK_TABLES.between_bb, called by calculate_pinned_pieces for squares on
\* a common line: the squares strictly between them
tables_between_bb(sq1, sq2) == between_bb(sq1, sq2)

\* a can_promote that looks at the destination alone
can_promote_to(from, to, color) ==
    IF color = Black THEN Rank(to) >= 6 ELSE Rank(to) <= 2

can_promote(from, to, color) ==
    IF color = Black THEN Rank(from) >= 6 \/ Rank(to) >= 6
    ELSE Rank(from) <= 2 \/ Rank(to) <= 2

(***************************************************************************)
(* movegen.rs: MoveGen::new and calculate_checkers_and_pins                *)
(***************************************************************************)
has_king(p, color) == p.board.piece_bb[color][King] # {}

\* can a lance of colour c on lance_sq attack towards sq (same file, ahead)
lance_can_attack(c, lance_sq, sq) ==
    IF c = Black THEN Rank(lance_sq) < Rank(sq) /\ File(lance_sq) = File(sq)
    ELSE Rank(lance_sq) > Rank(sq) /\ File(lance_sq) = File(sq)

\* the sliders of one loop that see the king with nothing in between
SliderCheckers(p, king_sq, sliders) ==
    {s \in sliders : between_bb(s, king_sq) \cap p.board.all_bb = {}}

\* blocker -> the sliders of one loop that pin it
SliderPinners(p, us, king_sq, sliders, blocker) ==
    {s \in sliders :
        LET blockers == between_bb(s, king_sq) \cap p.board.all_bb
        IN  blockers = {blocker} /\ blocker \in p.board.occupied_bb[us]}

calculate_checkers_and_pins(p, king_sq) ==
    LET us == p.side_to_move
        them == Opposite(us)
        bb == p.board.piece_bb[them]
        prom == p.board.promoted_bb
        gold_att == gold_attacks(king_sq, them)
        enemy_lances == {l \in bb[Lance] \ prom : lance_can_attack(them, l, king_sq)}
        enemy_rooks == {r \in bb[Rook] : is_aligned_rook(r, king_sq)}
        enemy_bishops == {b \in bb[Bishop] : is_aligned_bishop(b, king_sq)}
        checkers ==
            (bb[Pawn] \cap pawn_attacks(king_sq, them))
            \cup (bb[Knight] \cap knight_attacks(king_sq, them))
            \cup (bb[Gold] \cap gold_att)
            \cup ((((bb[Silver] \cup bb[Knight] \cup bb[Lance] \cup bb[Pawn]) \cap prom))
                  \cap gold_att)
            \cup ((bb[Silver] \ prom) \cap silver_attacks(king_sq, them))
            \cup SliderCheckers(p, king_sq, enemy_lances)
            \cup ((bb[Rook] \cap prom) \cap king_attacks(king_sq))
            \cup ((bb[Bishop] \cap prom) \cap king_attacks(king_sq))
            \cup SliderCheckers(p, king_sq, enemy_rooks)
            \cup SliderCheckers(p, king_sq, enemy_bishops)
        pinnedBy(b) == [l |-> SliderPinners(p, us, king_sq, enemy_lances, b),
                        r |-> SliderPinners(p, us, king_sq, enemy_rooks, b),
                        b |-> SliderPinners(p, us, king_sq, enemy_bishops, b)]
        pinned == {b \in p.board.occupied_bb[us] :
                      pinnedBy(b).l \cup pinnedBy(b).r \cup pinnedBy(b).b # {}}
        \* the loops run lances, rooks, bishops, each in pop_lsb order: the
        \* last write to pin_rays[blocker] stays
        lastPinner(b) == IF pinnedBy(b).b # {} THEN SetMax(pinnedBy(b).b)
                         ELSE IF pinnedBy(b).r # {} THEN SetMax(pinnedBy(b).r)
                         ELSE SetMax(pinnedBy(b).l)
    IN  [king_sq |-> king_sq,
         checkers |-> checkers,
         pinned |-> pinned,
         pin_rays |-> [b \in Squares |->
                         IF b \in pinned
                         THEN between_bb(lastPinner(b), king_sq) \cup {lastPinner(b)}
                         ELSE {}]]

\* MoveGen::new, for a position whose side to move has a king
MoveGenNew(p) ==
    calculate_checkers_and_pins(p, Unwrap(king_square(p.board, p.side_to_move)))

(***************************************************************************)
(* movegen.rs: per-piece move generation; each returns the moves in the    *)
(* order they are pushed                                                   *)
(***************************************************************************)
would_be_in_check(p, gen, from, to) ==
    LET them == Opposite(p.side_to_move)
        test_occupied == (p.board.all_bb \ {from}) \cup {to}
        king_sq == gen.king_sq
    IN  \/ p.board.piece_bb[them][Rook]
              \cap sliding_attacks(king_sq, test_occupied, Rook) # {}
        \/ p.board.piece_bb[them][Bishop]
              \cap sliding_attacks(king_sq, test_occupied, Bishop) # {}
        \/ \E lance_sq \in p.board.piece_bb[them][Lance] :
              /\ is_aligned(lance_sq, king_sq)
              /\ between_bb(lance_sq, king_sq) \cap test_occupied = {}

generate_king_moves_from(p, gen, from) ==
    LET us == p.side_to_move
        targets == king_attacks(from) \ p.board.occupied_bb[us]
        ts == SqSeq({to \in targets : ~would_be_in_check(p, gen, from, to)})
    IN  [i \in 1..Len(ts) |-> MoveNormal(from, ts[i], FALSE)]

\* add_moves calls between_bb(checker, king) whenever exactly one piece checks
add_moves_returns(gen) ==
    Cardinality(gen.checkers) = 1 =>
        between_bb_returns(SetMin(gen.checkers), gen.king_sq)

add_moves(p, gen, from, targets) ==
    LET them == Opposite(p.side_to_move)
        t1 == IF Cardinality(gen.checkers) = 1
              THEN targets \cap (between_bb(SetMin(gen.checkers), gen.king_sq)
                                 \cup gen.checkers)
              ELSE targets
        t2 == IF from \in gen.pinned THEN t1 \cap gen.pin_rays[from] ELSE t1
        ts == SqSeq(t2 \ p.board.piece_bb[them][King])
    IN  [i \in 1..Len(ts) |-> MoveNormal(from, ts[i], FALSE)]

generate_gold_moves(p, gen, from) ==
    add_moves(p, gen, from,
              gold_attacks(from, p.side_to_move) \ p.board.occupied_bb[p.side_to_move])

\* the promoted, then the unpromoted move, as the generators push them
PromotionVariants(from, to, must_promote, may_promote) ==
    IF must_promote THEN <<MoveNormal(from, to, TRUE)>>
    ELSE IF may_promote
    THEN <<MoveNormal(from, to, TRUE), MoveNormal(from, to, FALSE)>>
    ELSE <<MoveNormal(from, to, FALSE)>>

generate_silver_moves(p, gen, from, promoted) ==
    IF promoted THEN generate_gold_moves(p, gen, from)
    ELSE
    LET us == p.side_to_move
        targets == (silver_attacks(from, us) \ p.board.occupied_bb[us])
                   \ p.board.piece_bb[Opposite(us)][King]
        ts == SqSeq(targets)
    IN  Concat([i \in 1..Len(ts) |->
                  PromotionVariants(from, ts[i], FALSE, can_promote(from, ts[i], us))])

generate_knight_moves(p, gen, from, promoted) ==
    IF promoted THEN generate_gold_moves(p, gen, from)
    ELSE
    LET us == p.side_to_move
        ts == SqSeq(knight_attacks(from, us) \ p.board.occupied_bb[us])
    IN  Concat([i \in 1..Len(ts) |->
                  PromotionVariants(from, ts[i],
                      IF us = Black THEN Rank(ts[i]) >= 7 ELSE Rank(ts[i]) <= 1,
                      can_promote(from, ts[i], us))])

generate_lance_moves(p, gen, from, promoted) ==
    IF promoted THEN generate_gold_moves(p, gen, from)
    ELSE
    LET us == p.side_to_move
        \* walk the file until the first occupied square, taken if not ours
        reach == ray_attacks(from, IF us = Black THEN South ELSE North, p.board.all_bb)
                 \ p.board.occupied_bb[us]
        ts == IF us = Black THEN SqSeq(reach) ELSE SqSeqDesc(reach)
    IN  Concat([i \in 1..Len(ts) |->
                  PromotionVariants(from, ts[i],
                      IF us = Black THEN Rank(ts[i]) = 8 ELSE Rank(ts[i]) = 0,
                      can_promote(from, ts[i], us))])

generate_pawn_moves(p, gen, from, promoted) ==
    IF promoted THEN generate_gold_moves(p, gen, from)
    ELSE
    LET us == p.side_to_move
        ts == SqSeq(pawn_attacks(from, us) \ p.board.occupied_bb[us])
    IN  Concat([i \in 1..Len(ts) |->
                  PromotionVariants(from, ts[i],
                      IF us = Black THEN Rank(ts[i]) = 8 ELSE Rank(ts[i]) = 0,
                      can_promote(from, ts[i], us))])

generate_sliding_moves(p, gen, from, piece_type, promoted) ==
    LET us == p.side_to_move
        attacks == sliding_attacks(from, p.board.all_bb, piece_type)
                   \cup (IF promoted THEN king_attacks(from) ELSE {})
        ts == SqSeq(attacks \ p.board.occupied_bb[us])
    IN  Concat([i \in 1..Len(ts) |->
                  PromotionVariants(from, ts[i], FALSE,
                      ~promoted /\ can_promote(from, ts[i], us))])

(***************************************************************************)
(* movegen.rs: attackers, pins of the defending side, drop-pawn-mate       *)
(***************************************************************************)
attackers_to_with_occupancy(p, sq, color, occupied) ==
    LET bb == p.board.piece_bb[color]
        prom == p.board.promoted_bb
        opp == Opposite(color)
    IN  ((bb[Pawn] \ prom) \cap pawn_attacks(sq, opp))
        \cup ((bb[Knight] \ prom) \cap knight_attacks(sq, opp))
        \cup ((bb[Gold] \cup ((bb[Silver] \cup bb[Knight] \cup bb[Lance] \cup bb[Pawn])
                              \cap prom))
              \cap gold_attacks(sq, opp))
        \cup ((bb[Silver] \ prom) \cap silver_attacks(sq, opp))
        \cup (bb[King] \cap king_attacks(sq))
        \cup {l \in bb[Lance] \ prom :
                 /\ lance_can_attack(color, l, sq)
                 /\ between_bb(l, sq) \cap occupied = {}}
        \cup (bb[Rook] \cap sliding_attacks(sq, occupied, Rook))
        \cup ((bb[Rook] \cap prom) \cap king_attacks(sq))
        \cup (bb[Bishop] \cap sliding_attacks(sq, occupied, Bishop))
        \cup ((bb[Bishop] \cap prom) \cap king_attacks(sq))

attackers_to(p, sq, color) ==
    attackers_to_with_occupancy(p, sq, color, p.board.all_bb)

attackers_to_except_king_pawn_lance(p, sq, color) ==
    LET bb == p.board.piece_bb[color]
        prom == p.board.promoted_bb
        opp == Opposite(color)
        occupied == p.board.all_bb
    IN  ((bb[Knight] \ prom) \cap knight_attacks(sq, opp))
        \cup ((bb[Knight] \cap prom) \cap gold_attacks(sq, opp))
        \cup ((bb[Silver] \ prom) \cap silver_attacks(sq, opp))
        \cup ((bb[Silver] \cap prom) \cap gold_attacks(sq, opp))
        \cup (bb[Gold] \cap gold_attacks(sq, opp))
        \cup (bb[Bishop] \cap sliding_attacks(sq, occupied, Bishop))
        \cup (bb[Rook] \cap sliding_attacks(sq, occupied, Rook))

calculate_pinned_pieces(p, color) ==
    IF ~has_king(p, color) THEN {}
    ELSE
    LET king_sq == Unwrap(king_square(p.board, color))
        them == Opposite(color)
        rooks == {r \in p.board.piece_bb[them][Rook] :
                     ~(Rank(r) # Rank(king_sq) /\ File(r) # File(king_sq))}
        bishops == {b \in p.board.piece_bb[them][Bishop] :
                       Abs(Rank(b) - Rank(king_sq)) = Abs(File(b) - File(king_sq))}
        pinnedOn(s) ==
            LET blockers == tables_between_bb(s, king_sq) \cap p.board.all_bb
            IN  IF Cardinality(blockers) = 1
                THEN blockers \cap p.board.occupied_bb[color]
                ELSE {}
    IN  UNION {pinnedOn(s) : s \in rooks \cup bishops}

is_drop_pawn_mate(p, to, them) ==
    IF ~has_king(p, them) THEN FALSE
    ELSE
    LET their_king_sq == Unwrap(king_square(p.board, them))
        us == Opposite(them)
        defenders == attackers_to_except_king_pawn_lance(p, to, them)
        pinned == calculate_pinned_pieces(p, them)
        escape_squares == (king_attacks(their_king_sq) \ p.board.occupied_bb[them]) \ {to}
        occupied_after_drop == p.board.all_bb \cup {to}
    IN  IF their_king_sq \notin pawn_attacks(to, us) THEN FALSE
        ELSE IF attackers_to(p, to, us) = {} THEN FALSE
        ELSE IF \E d \in defenders : d \notin pinned THEN FALSE
        ELSE \A e \in escape_squares :
                attackers_to_with_occupancy(p, e, us, occupied_after_drop) # {}

(***************************************************************************)
(* movegen.rs: drops                                                       *)
(***************************************************************************)
has_pawn_on_file(p, file, color) ==
    \E rank \in 0..8 : Sq(file, rank) \in p.board.piece_bb[color][Pawn]

RankSquares(rank) == {Sq(f, rank) : f \in 0..8}

get_valid_drop_squares(p, piece_type, empty_squares) ==
    LET us == p.side_to_move
        them == Opposite(us)
        last_rank == IF us = Black THEN RankSquares(8) ELSE RankSquares(0)
    IN  IF piece_type = Pawn
        THEN LET v1 == {sq \in empty_squares : ~has_pawn_on_file(p, File(sq), us)}
                       \ last_rank
                 their_king == king_square(p.board, them)
                 k == Unwrap(their_king)
                 pawn_check_sq ==
                     IF us = Black
                     THEN (IF Rank(k) > 0 THEN Some(Sq(File(k), Rank(k) - 1)) ELSE None)
                     ELSE (IF Rank(k) < 8 THEN Some(Sq(File(k), Rank(k) + 1)) ELSE None)
             IN  IF IsSome(their_king) /\ IsSome(pawn_check_sq)
                    /\ Unwrap(pawn_check_sq) \in v1
                    /\ is_drop_pawn_mate(p, Unwrap(pawn_check_sq), them)
                 THEN v1 \ {Unwrap(pawn_check_sq)}
                 ELSE v1
        ELSE IF piece_type = Lance THEN empty_squares \ last_rank
        ELSE IF piece_type = Knight
        THEN IF us = Black
             THEN empty_squares \ (RankSquares(7) \cup RankSquares(8))
             ELSE empty_squares \ (RankSquares(0) \cup RankSquares(1))
        ELSE empty_squares

generate_drop_moves(p) ==
    LET us == p.side_to_move
        empty_squares == BitNot(p.board.all_bb)
        dropsOf(piece_idx) ==
            IF p.hands[us][piece_idx] = 0 THEN <<>>
            ELSE LET ts == SqSeq(get_valid_drop_squares(p, HandType(piece_idx),
                                                        empty_squares))
                 IN  [i \in 1..Len(ts) |-> MoveDrop(HandType(piece_idx), ts[i])]
    IN  Concat([k \in 1..7 |-> dropsOf(k - 1)])

(***************************************************************************)
(* movegen.rs: generate_all.  The result is [ok, moves]: ok is FALSE when  *)
(* the call does not return (between_bb on squares that share no line).    *)
(***************************************************************************)
generate_piece_moves(p, gen, piece_type, from) ==
    LET piece == piece_on(p.board, from)
        promoted == IF IsSome(piece) THEN Unwrap(piece).promoted ELSE FALSE
    IN  CASE piece_type = King -> generate_king_moves_from(p, gen, from)
          [] piece_type \in {Rook, Bishop} ->
                generate_sliding_moves(p, gen, from, piece_type, promoted)
          [] piece_type = Gold -> generate_gold_moves(p, gen, from)
          [] piece_type = Silver -> generate_silver_moves(p, gen, from, promoted)
          [] piece_type = Knight -> generate_knight_moves(p, gen, from, promoted)
          [] piece_type = Lance -> generate_lance_moves(p, gen, from, promoted)
          [] piece_type = Pawn -> generate_pawn_moves(p, gen, from, promoted)

\* the squares whose moves go through add_moves: golds and promoted
\* silvers, knights, lances and pawns of the side to move
uses_add_moves(p) ==
    LET bb == p.board.piece_bb[p.side_to_move]
    IN  bb[Gold] \cup {s \in bb[Silver] \cup bb[Knight] \cup bb[Lance] \cup bb[Pawn] :
                          IsSome(piece_on(p.board, s))
                          /\ Unwrap(piece_on(p.board, s)).promoted}

generate_all_with(p, gen) ==
    LET us == p.side_to_move
        them == Opposite(us)
        movesOfType(pt) ==
            LET froms == SqSeq(p.board.piece_bb[us][pt])
            IN  Concat([i \in 1..Len(froms) |-> generate_piece_moves(p, gen, pt, froms[i])])
        pieceMoves == Concat([k \in 1..8 |-> movesOfType(k - 1)])
        drops == IF gen.checkers = {} THEN generate_drop_moves(p) ELSE <<>>
        enemy_king == Lsb(p.board.piece_bb[them][King])
        all == pieceMoves \o drops
    IN  IF Cardinality(gen.checkers) > 1
        THEN [ok |-> TRUE, moves |-> generate_king_moves_from(p, gen, gen.king_sq)]
        ELSE IF uses_add_moves(p) # {} /\ ~add_moves_returns(gen)
        THEN [ok |-> FALSE, moves |-> <<>>]
        ELSE [ok |-> TRUE,
              moves |-> IF IsSome(enemy_king)
                        THEN SelectSeq(all, LAMBDA m : MoveTo(m) # Unwrap(enemy_king))
                        ELSE all]

\* MoveGen::new(pos) followed by generate_all()
generate_all(p) == generate_all_with(p, MoveGenNew(p))

(***************************************************************************)
(* evaluate.rs                                                             *)
(***************************************************************************)
PIECE_VALUES == <<0, 1000, 800, 450, 400, 350, 300, 100>>
PROMOTION_BONUS == <<0, 200, 200, 0, 50, 100, 100, 300>>

RECURSIVE Sum(_)
Sum(seq) ==
    IF seq = <<>> THEN 0
    ELSE IF Len(seq) = 1 THEN seq[1]
    ELSE Sum(SubSeq(seq, 1, Len(seq) \div 2))
         + Sum(SubSeq(seq, Len(seq) \div 2 + 1, Len(seq)))

evaluate_position(p) ==
    LET us == p.side_to_move
    IN  IF ~has_king(p, us) THEN 0
        ELSE LET king_rank == Rank(Unwrap(king_square(p.board, us)))
             IN  IF us = Black
                 THEN (IF king_rank <= 2 THEN 50 ELSE 0)
                 ELSE (IF king_rank >= 6 THEN 50 ELSE 0)

evaluate(p) ==
    LET us == p.side_to_move
        them == Opposite(us)
        onBoard(pt) ==
            LET ours == p.board.piece_bb[us][pt]
                theirs == p.board.piece_bb[them][pt]
            IN  PIECE_VALUES[pt + 1] * (Cardinality(ours) - Cardinality(theirs))
                + (IF pt # King /\ pt # Gold
                   THEN PROMOTION_BONUS[pt + 1]
                        * (Cardinality(ours \cap p.board.promoted_bb)
                           - Cardinality(theirs \cap p.board.promoted_bb))
                   ELSE 0)
        inHand(i) == PIECE_VALUES[HandType(i) + 1] * (p.hands[us][i] - p.hands[them][i])
    IN  Sum([k \in 1..8 |-> onBoard(k - 1)]) + Sum([k \in 1..7 |-> inHand(k - 1)])
        + evaluate_position(p)

(***************************************************************************)
(* search.rs: Searcher.  The searcher's fields are nodes and pv; clock is  *)
(* start_time.elapsed() as should_stop reads it: every call of should_stop *)
(* finds it advanced by tick, the wall-clock time one call of this run     *)
(* takes (the elapsed time only grows, so the limit trips at some call and *)
(* at every later one); tripped and panic record that should_stop          *)
(* returned true inside alpha_beta, and that the call did not return;      *)
(* tripped_at is the node count at the first such return.                  *)
(***************************************************************************)
PvSlots == 128
Infinity == 30000

NewSearcher ==
    [nodes |-> 0, pv |-> [i \in 0..(PvSlots - 1) |-> <<>>], clock |-> 0, tick |-> 1,
     tripped |-> FALSE, tripped_at |-> 0, panic |-> ""]

should_stop(limits, s) ==
    \/ IsSome(limits.nodes) /\ s.nodes >= Unwrap(limits.nodes)
    \/ IsSome(limits.time) /\ s.clock >= Unwrap(limits.time)

RECURSIVE alpha_beta(_, _, _, _, _, _)
RECURSIVE alpha_beta_moves(_, _, _, _, _, _, _, _)

\* The loop over the moves carries [s, alpha, best_score, stop]: the
\* searcher, the two locals of alpha_beta, and whether the loop has been
\* left (the break at a beta cutoff, or a call that did not return).
LoopStart(s, alpha) ==
    [s |-> s, alpha |-> alpha, best_score |-> -Infinity, stop |-> FALSE]

\* the turn of the loop with a cutoff at the first move that raises alpha
alpha_beta_scored_first_raise(limits, p, depth, alpha, beta, moves, i, best_score, sub) ==
    LET ply == limits.depth - depth
        score == -sub.score
        raised == score > best_score /\ score > alpha
        withPv == [sub.s EXCEPT !.pv[ply] = <<moves[i]>> \o sub.s.pv[ply + 1]]
    IN  IF sub.s.panic # ""
        THEN [s |-> sub.s, alpha |-> alpha, best_score |-> best_score, stop |-> TRUE]
        ELSE IF raised
        THEN [s |-> withPv, alpha |-> score, best_score |-> score, stop |-> TRUE]
        ELSE [s |-> sub.s, alpha |-> alpha,
              best_score |-> IF score > best_score THEN score ELSE best_score,
              stop |-> FALSE]

\* the rest of one turn of the loop over the moves, once the recursive search
\* of the i-th move has returned sub: best score, alpha, principal variation
\* and the break at a beta cutoff
alpha_beta_scored(limits, p, depth, alpha, beta, moves, i, best_score, sub) ==
    LET ply == limits.depth - depth
        score == -sub.score
        raised == score > best_score /\ score > alpha
        withPv == [sub.s EXCEPT !.pv[ply] = <<moves[i]>> \o sub.s.pv[ply + 1]]
    IN  IF sub.s.panic # ""
        THEN [s |-> sub.s, alpha |-> alpha, best_score |-> best_score, stop |-> TRUE]
        ELSE [s |-> IF raised THEN withPv ELSE sub.s,
              alpha |-> IF raised THEN score ELSE alpha,
              best_score |-> IF score > best_score THEN score ELSE best_score,
              stop |-> raised /\ score >= beta]

\* one turn of the loop, once do_move has been applied to the clone
alpha_beta_moved(limits, s, p, depth, alpha, beta, moves, i, best_score, moved) ==
    IF ~moved.ok
    THEN [s |-> [s EXCEPT !.panic = moved.why], alpha |-> alpha,
          best_score |-> best_score, stop |-> TRUE]
    ELSE alpha_beta_scored(limits, p, depth, alpha, beta, moves, i, best_score,
                           alpha_beta(limits, s, moved.pos, depth - 1, -beta, -alpha))

\* the i-th turn of the loop, entered with the loop state l
alpha_beta_turn(limits, p, depth, beta, moves, i, l) ==
    alpha_beta_moved(limits, l.s, p, depth, l.alpha, beta, moves, i, l.best_score,
                     do_move(p, moves[i]))

\* the turns lo..hi of the loop over the moves, in order, entered with the
\* loop state l: the first half of the turns, then the second half
alpha_beta_moves(limits, p, depth, beta, moves, lo, hi, l) ==
    IF l.stop \/ lo > hi THEN l
    ELSE IF lo = hi THEN alpha_beta_turn(limits, p, depth, beta, moves, lo, l)
    ELSE alpha_beta_moves(limits, p, depth, beta, moves, (lo + hi) \div 2 + 1, hi,
             alpha_beta_moves(limits, p, depth, beta, moves, lo, (lo + hi) \div 2, l))

\* what alpha_beta returns once the loop has been left
alpha_beta_return(l) == [score |-> l.best_score, s |-> l.s]

\* alpha_beta from the generated move list on
alpha_beta_generated(limits, s, p, depth, alpha, beta, checkers, list) ==
    IF ~list.ok
    THEN [score |-> 0, s |-> [s EXCEPT !.panic = "generate_all does not return"]]
    ELSE IF list.moves = <<>>
    THEN [score |-> IF checkers # {} THEN -Infinity + (limits.depth - depth) ELSE 0,
          s |-> s]
    ELSE alpha_beta_return(
             alpha_beta_moves(limits, p, depth, beta, list.moves, 1, Len(list.moves),
                              LoopStart(s, alpha)))

\* alpha_beta from MoveGen::new on
alpha_beta_gen(limits, s, p, depth, alpha, beta, gen) ==
    alpha_beta_generated(limits, s, p, depth, alpha, beta, gen.checkers,
                         generate_all_with(p, gen))

alpha_beta(limits, s0, p, depth, alpha, beta) ==
    LET s1 == [s0 EXCEPT !.nodes = @ + 1, !.clock = @ + s0.tick]
        ply == limits.depth - depth
        s2 == [s1 EXCEPT !.pv[ply] = <<>>]
    IN  IF should_stop(limits, s1)
        THEN [score |-> 0,
              s |-> [s1 EXCEPT !.tripped = TRUE,
                               !.tripped_at = IF s1.tripped THEN @ ELSE s1.nodes]]
        ELSE IF depth = 0 THEN [score |-> evaluate(p), s |-> s1]
        ELSE IF ~has_king(p, p.side_to_move)
        THEN [score |-> 0, s |-> [s2 EXCEPT !.panic = "King must exist"]]
        ELSE alpha_beta_gen(limits, s2, p, depth, alpha, beta, MoveGenNew(p))

RECURSIVE search_iterations(_, _, _, _, _, _, _)

\* one iteration of the loop of search(), once alpha_beta has returned r
search_iterated(limits, p, depth, best_move, best_score, iters, r) ==
    LET s1 == [r.s EXCEPT !.clock = @ + r.s.tick]
        result(t) ==
            [best_move |-> best_move, score |-> best_score, nodes |-> t.nodes,
             pv |-> t.pv[0], panic |-> t.panic,
             iters |-> iters, interrupted |-> depth, tripped |-> t.tripped,
             tripped_at |-> t.tripped_at]
    IN  IF r.s.panic # "" THEN result(r.s)
        ELSE IF should_stop(limits, s1) THEN result(s1)
        ELSE search_iterations(limits, p, s1, depth + 1,
                               IF s1.pv[0] # <<>> THEN Some(s1.pv[0][1]) ELSE best_move,
                               r.score,
                               Append(iters, [depth |-> depth, score |-> r.score,
                                              pv |-> s1.pv[limits.depth - depth]]))

\* the iterative-deepening loop of search() from iteration `depth` on; iters
\* lists, for each iteration that was kept, its depth, the score alpha_beta
\* returned and the line its root node left in pv
search_iterations(limits, p, s, depth, best_move, best_score, iters) ==
    IF depth > limits.depth
    THEN [best_move |-> best_move, score |-> best_score, nodes |-> s.nodes,
          pv |-> s.pv[0], panic |-> s.panic,
          iters |-> iters, interrupted |-> 0, tripped |-> s.tripped,
          tripped_at |-> s.tripped_at]
    ELSE search_iterated(limits, p, depth, best_move, best_score, iters,
                         alpha_beta(limits, s, p, depth, -Infinity, Infinity))

\* Searcher::new(limits).search(pos) in a run where the clock advances by
\* tick from one should_stop call to the next
search_run(limits, p, tick) ==
    search_iterations(limits, p, [NewSearcher EXCEPT !.tick = tick], 1, None,
                      -Infinity, <<>>)

\* Searcher::new(limits).search(pos)
search_position(limits, p) == search_run(limits, p, 1)

(***************************************************************************)
(* The game from the start position: MoveGen::new + generate_all, then     *)
(* do_move of one of the generated moves, as Searcher::alpha_beta and the  *)
(* callers of the engine do.                                               *)
(***************************************************************************)
MaxPly == 7

\* The squares the exploration from the start position plays on: the two
\* bishops' long diagonal with the pawns that open it, the squares the
\* recapturing silver and rook use, the two rooks' shuttle squares, and the
\* rest of the file on which a pawn marches into the promotion zone.
Focus ==
    {Sq(1, 1), Sq(2, 2), Sq(3, 3), Sq(6, 6), Sq(7, 7),
     Sq(2, 3), Sq(6, 5), Sq(6, 8), Sq(1, 7), Sq(7, 1), Sq(6, 1), Sq(2, 7),
     Sq(2, 4), Sq(2, 5), Sq(2, 6)}

Explored(mv) ==
    /\ MoveTo(mv) \in Focus
    /\ IsSome(MoveFrom(mv)) => Unwrap(MoveFrom(mv)) \in Focus

Init ==
    /\ pos = startpos
    /\ generated = None
    /\ status = "ok"
    /\ last = None
    /\ search = None

\* MoveGen::new(pos) and generate_all()
Generate ==
    /\ status = "ok"
    /\ generated = None
    /\ has_king(pos, pos.side_to_move)
    /\ LET g == MoveGenNew(pos)
           r == generate_all_with(pos, g)
       IN  IF r.ok
           THEN /\ generated' = Some([checkers |-> g.checkers, pinned |-> g.pinned,
                                pin_rays |-> g.pin_rays, king_sq |-> g.king_sq,
                                moves |-> r.moves])
                /\ status' = "ok"
           ELSE /\ generated' = None
                /\ status' = "generate_all does not return"
    /\ UNCHANGED <<pos, last, search>>

\* do_move(mv) for a move of the generated list
Apply(mv) ==
    /\ status = "ok"
    /\ IsSome(generated)
    /\ mv \in Range(Unwrap(generated).moves)
    /\ LET r == do_move(pos, mv)
       IN  /\ pos' = r.pos
           /\ status' = IF r.ok THEN "ok" ELSE r.why
           /\ last' = Some([mv |-> mv, before |-> pos])
    /\ generated' = None
    /\ UNCHANGED search

Play ==
    /\ pos.ply < MaxPly
    /\ IsSome(generated)
    /\ \E mv \in Range(Unwrap(generated).moves) : Explored(mv) /\ Apply(mv)

Next == Generate \/ Play

Spec == Init /\ [][Next]_vars

(***************************************************************************)
(* Positions set up on an empty board, as the tests of movegen.rs and      *)
(* test_king_capture.rs do: Position::empty(), a run of put_piece calls,   *)
(* the hands and the side to move assigned directly.                       *)
(***************************************************************************)
B(pt, file, rank) == <<Sq(file, rank), NewPiece(pt, Black)>>
W(pt, file, rank) == <<Sq(file, rank), NewPiece(pt, White)>>
WPromoted(pt, file, rank) == <<Sq(file, rank), PromotedPiece(pt, White)>>

NoHands == [c \in Colors |-> [i \in HandIdx |-> 0]]
BlackPawnInHand == [NoHands EXCEPT ![Black][hand_idx(Pawn)] = 1]

SetUp(placements, hands, side) ==
    [EmptyPosition EXCEPT !.board = PutAll(EmptyBoard, placements),
                          !.hands = hands,
                          !.side_to_move = side]

\* the positions of the tests, Black to move in each
TestPositions ==
    {SetUp(<<B(King, 4, 0), W(King, 4, 8), B(Pawn, 4, 3)>>, NoHands, Black),
     SetUp(<<B(King, 4, 0), W(King, 4, 8), B(Pawn, 4, 6)>>, NoHands, Black),
     SetUp(<<B(King, 4, 0), W(King, 4, 8), W(Lance, 4, 3), B(Gold, 3, 1)>>, NoHands, Black),
     SetUp(<<B(King, 4, 0), W(King, 4, 8), B(Gold, 4, 2), W(Rook, 4, 5)>>, NoHands, Black),
     SetUp(<<B(King, 0, 0), W(King, 4, 8), B(Gold, 3, 8), B(Gold, 5, 8),
             B(Gold, 3, 7), B(Gold, 5, 7)>>, BlackPawnInHand, Black),
     SetUp(<<B(King, 0, 0), W(King, 4, 8), B(Gold, 3, 8)>>, BlackPawnInHand, Black),
     SetUp(<<B(King, 0, 0), W(King, 4, 8), B(Gold, 3, 8), B(Gold, 5, 8),
             W(Gold, 4, 6)>>, BlackPawnInHand, Black),
     SetUp(<<B(King, 8, 0), W(King, 4, 8)>>, BlackPawnInHand, Black),
     SetUp(<<W(King, 8, 7), W(Silver, 7, 7), B(Rook, 4, 7), B(Gold, 8, 5),
             B(King, 0, 0), B(Gold, 7, 8), B(Gold, 8, 8)>>, BlackPawnInHand, Black),
     SetUp(<<W(King, 4, 7), W(Silver, 3, 7), B(Gold, 4, 5), B(King, 0, 0),
             B(Gold, 3, 8)>>, BlackPawnInHand, Black),
     SetUp(<<W(King, 4, 7), WPromoted(Silver, 3, 6), B(Gold, 4, 5), B(King, 0, 0),
             B(Gold, 3, 7), B(Gold, 3, 8), B(Gold, 4, 8), B(Gold, 5, 8),
             B(Gold, 5, 7)>>, BlackPawnInHand, Black),
     SetUp(<<W(King, 4, 7), W(Rook, 4, 3), B(Gold, 4, 5), B(King, 0, 0)>>,
           BlackPawnInHand, Black),
     SetUp(<<W(King, 8, 8), W(Silver, 7, 8), B(Rook, 4, 8), B(Gold, 8, 6),
             B(King, 0, 0), B(Gold, 7, 7)>>, BlackPawnInHand, Black),
     SetUp(<<W(King, 4, 7), W(Rook, 1, 7), B(Gold, 4, 5), B(King, 4, 0)>>,
           BlackPawnInHand, Black),
     SetUp(<<B(King, 4, 0), B(Silver, 4, 1), W(King, 3, 2)>>, NoHands, Black)}

\* positions set up for the cases the tests leave out
OtherPositions ==
    {\* the enemy king beside the king while two golds give check
     SetUp(<<B(King, 4, 4), W(King, 4, 5), W(Gold, 3, 4), W(Gold, 5, 4)>>,
           NoHands, Black),
     \* a silver, a knight, a lance and a pawn of the side in check
     SetUp(<<B(King, 4, 0), W(King, 4, 8), W(Lance, 4, 3), B(Gold, 3, 1),
             B(Silver, 6, 2), B(Pawn, 0, 2)>>, NoHands, Black),
     \* a silver between its king and a rook
     SetUp(<<B(King, 4, 0), W(King, 4, 8), B(Silver, 4, 2), W(Rook, 4, 5)>>,
           NoHands, Black),
     \* a promoted pawn on a file, pawn, lance and knight in hand
     SetUp(<<B(King, 8, 0), W(King, 4, 8), <<Sq(2, 6), PromotedPiece(Pawn, Black)>> >>,
           [NoHands EXCEPT ![Black][hand_idx(Pawn)] = 1,
                           ![Black][hand_idx(Lance)] = 1,
                           ![Black][hand_idx(Knight)] = 2], Black),
     \* a knight that attacks the king, and a knight two ranks behind the
     \* king, each with a gold of the mover on the board
     SetUp(<<B(King, 4, 4), W(King, 4, 8), W(Knight, 3, 6), B(Gold, 0, 0)>>,
           NoHands, Black),
     SetUp(<<B(King, 4, 4), W(King, 4, 8), W(Knight, 3, 2), B(Gold, 0, 0)>>,
           NoHands, Black)}

BPromoted(pt, file, rank) == <<Sq(file, rank), PromotedPiece(pt, Black)>>

\* positions with pieces of every type in front of, at the edge of and inside
\* the promotion zone
PromotionPositions ==
    {SetUp(<<B(King, 4, 0), W(King, 4, 8), B(Pawn, 8, 7), B(Pawn, 1, 2),
             B(Knight, 1, 5), B(Knight, 7, 4), B(Knight, 6, 2), B(Lance, 0, 4),
             B(Silver, 2, 5), B(Silver, 5, 6), B(Rook, 3, 3), B(Bishop, 7, 6),
             B(Gold, 5, 5), BPromoted(Silver, 6, 7), BPromoted(Pawn, 2, 7),
             BPromoted(Rook, 8, 2), W(Pawn, 0, 6), W(Gold, 3, 6)>>, NoHands, Black),
     SetUp(<<B(King, 4, 0), W(King, 4, 8), B(Pawn, 0, 5), B(Lance, 1, 6),
             B(Lance, 7, 1), B(Knight, 2, 6), B(Bishop, 2, 2), B(Rook, 6, 7),
             BPromoted(Bishop, 7, 5), BPromoted(Knight, 5, 6), BPromoted(Lance, 8, 6),
             W(Silver, 1, 8), W(Pawn, 7, 2)>>, NoHands, Black)}

\* one piece more on an empty square of a region
ExtraPieces ==
    {NewPiece(pt, c) : pt \in PieceTypes \ {King}, c \in Colors}
    \cup {PromotedPiece(pt, c) : pt \in {pt \in PieceTypes : can_promote_type(pt)},
                                  c \in Colors}

FarRanks(piece) ==
    IF piece.promoted THEN {}
    ELSE IF piece.piece_type \in {Pawn, Lance}
    THEN (IF piece.color = Black THEN {8} ELSE {0})
    ELSE IF piece.piece_type = Knight
    THEN (IF piece.color = Black THEN {7, 8} ELSE {0, 1})
    ELSE {}

\* a piece may stand on sq: it has a move from there, and a pawn is alone on its file
CanStand(p, piece, sq) ==
    /\ sq \notin p.board.all_bb
    /\ Rank(sq) \notin FarRanks(piece)
    /\ (piece.piece_type = Pawn /\ ~piece.promoted) =>
          \A s \in p.board.piece_bb[piece.color][Pawn] \ p.board.promoted_bb :
              File(s) # File(sq)

Box(files, ranks) == {Sq(f, r) : f \in files, r \in ranks}

WithExtra(p, region) ==
    {[p EXCEPT !.board = put_piece(@, sq, piece)] :
        <<sq, piece>> \in {x \in region \X ExtraPieces : CanStand(p, x[2], x[1])}}

ExtendedPositions ==
    WithExtra(SetUp(<<B(King, 4, 4), W(King, 4, 8)>>, NoHands, Black), Box(3..5, 2..6))
    \cup WithExtra(SetUp(<<B(King, 4, 0), W(King, 4, 8), B(Pawn, 4, 3)>>, NoHands, Black),
              Box(2..6, 0..2))
    \cup WithExtra(SetUp(<<B(King, 4, 0), W(King, 4, 8), W(Lance, 4, 3), B(Gold, 3, 1)>>,
                         NoHands, Black), Box(3..5, 1..3))
    \cup WithExtra(SetUp(<<B(King, 4, 0), W(King, 4, 8), B(Gold, 4, 2), W(Rook, 4, 5)>>,
                         NoHands, Black), Box(3..5, 1..3))
    \cup WithExtra(SetUp(<<B(King, 0, 0), W(King, 4, 8), B(Gold, 3, 8), B(Gold, 5, 8),
                           B(Gold, 3, 7), B(Gold, 5, 7)>>, BlackPawnInHand, Black),
                   Box(3..5, {6}))
    \cup WithExtra(SetUp(<<B(King, 4, 0), W(King, 4, 8)>>, BlackPawnInHand, Black),
                   Box(3..5, 1..2))

\* the same position seen from the other side: the board turned by 180
\* degrees, the colours, the hands and the side to move exchanged
Mirror(p) ==
    LET turned == [i \in 1..Cardinality(p.board.all_bb) |->
                     LET sq == SqSeq(p.board.all_bb)[i]
                         pc == Unwrap(p.board.squares[sq])
                     IN  <<80 - sq, [pc EXCEPT !.color = Opposite(pc.color)]>>]
    IN  SetUp(turned, [c \in Colors |-> p.hands[Opposite(c)]], Opposite(p.side_to_move))

SetUpPositions ==
    LET blackToMove == TestPositions \cup OtherPositions \cup PromotionPositions
                       \cup ExtendedPositions
    IN  blackToMove \cup {Mirror(p) : p \in blackToMove}

MaxPosPly == 1

InitPos ==
    /\ pos \in SetUpPositions
    /\ generated = None
    /\ status = "ok"
    /\ last = None
    /\ search = None

GeneratePos == pos.ply < MaxPosPly /\ Generate

PlayPos ==
    /\ pos.ply < MaxPosPly
    /\ IsSome(generated)
    /\ \E mv \in Range(Unwrap(generated).moves) : Apply(mv)

NextPos == GeneratePos \/ PlayPos

SpecPos == InitPos /\ [][NextPos]_vars

(***************************************************************************)
(* One search: a Searcher is created with its limits and search() is       *)
(* called on a position.                                                   *)
(***************************************************************************)
MaxDepth == 2
MaxNodes == 12
MaxClock == 12
MaxTick == 2

SearchPositions ==
    {startpos,
     SetUp(<<B(King, 4, 0), W(King, 4, 8), B(Pawn, 4, 3)>>, NoHands, Black),
     SetUp(<<B(King, 4, 0), W(King, 4, 8), B(Pawn, 4, 6)>>, NoHands, Black),
     SetUp(<<B(King, 4, 0), W(King, 4, 8), W(Lance, 4, 3), B(Gold, 3, 1)>>, NoHands, Black),
     SetUp(<<B(King, 4, 0), W(King, 4, 8), B(Gold, 4, 2), W(Rook, 4, 5)>>, NoHands, Black),
     SetUp(<<B(King, 8, 0), W(King, 4, 8)>>, BlackPawnInHand, Black),
     Mirror(SetUp(<<B(King, 4, 0), W(King, 4, 8), B(Pawn, 4, 3)>>, NoHands, Black)),
     \* the mover is mated by a protected dragon next to the king; the mover
     \* mates in one by bringing a dragon next to the king
     SetUp(<<B(King, 0, 0), W(King, 4, 8), WPromoted(Rook, 0, 1), W(Rook, 0, 3)>>,
           NoHands, Black),
     SetUp(<<B(King, 0, 0), W(King, 8, 8), BPromoted(Rook, 5, 7), B(Gold, 8, 6)>>,
           NoHands, Black),
     \* the dragon next to the king is unprotected: the king can take it
     SetUp(<<B(King, 0, 0), W(King, 4, 8), WPromoted(Rook, 0, 1)>>, NoHands, Black)}

SearchLimits ==
    [depth : 1..MaxDepth,
     time : {None} \cup {Some(t) : t \in 1..MaxClock},
     nodes : {None} \cup {Some(n) : n \in 1..MaxNodes}]

InitSearch ==
    /\ pos \in SearchPositions
    /\ generated = None
    /\ status = "ok"
    /\ last = None
    /\ \E limits \in SearchLimits :
          search = Some([limits |-> limits, result |-> None, again |-> None])

\* Searcher::new(limits).search(&pos); the wall clock of the run advances by
\* tick per should_stop call
Search ==
    /\ IsSome(search)
    /\ Unwrap(search).result = None
    /\ \E tick \in 1..MaxTick :
          LET limits == Unwrap(search).limits
              r == search_run(limits, pos, tick)
          IN  /\ search' = Some([Unwrap(search) EXCEPT !.result = Some(r)])
              /\ status' = IF r.panic = "" THEN "ok" ELSE r.panic
    /\ UNCHANGED <<pos, generated, last>>

\* a second run on the same position with the same limits:
\* Searcher::new(limits).search(&pos) once more
SearchAgain ==
    /\ IsSome(search)
    /\ IsSome(Unwrap(search).result)
    /\ Unwrap(search).again = None
    /\ status = "ok"
    /\ \E tick \in 1..MaxTick :
          search' = Some([Unwrap(search) EXCEPT
                             !.again = Some(search_run(Unwrap(search).limits, pos, tick))])
    /\ UNCHANGED <<pos, generated, status, last>>

NextSearch == Search \/ SearchAgain

SpecSearch == InitSearch /\ [][NextSearch]_vars

(***************************************************************************)
(* A Board driven directly: Board::empty() followed by put_piece and       *)
(* remove_piece calls in any order, as test_board_operations does.  The    *)
(* board is held in pos.board; last records the call.                      *)
(***************************************************************************)
BoardSquares == {Sq(4, 4), Sq(0, 0)}

BoardPieces ==
    {NewPiece(Pawn, Black), NewPiece(Gold, White), PromotedPiece(Pawn, White)}

InitBoard ==
    /\ pos = EmptyPosition
    /\ generated = None
    /\ status = "ok"
    /\ last = None
    /\ search = None

PutPiece ==
    \E sq \in BoardSquares, piece \in BoardPieces :
        /\ pos' = [pos EXCEPT !.board = put_piece(@, sq, piece)]
        /\ last' = Some([before |-> pos, op |-> "put_piece", sq |-> sq,
                         piece |-> Some(piece)])
        /\ UNCHANGED <<generated, status, search>>

RemovePiece ==
    \E sq \in BoardSquares :
        /\ pos' = [pos EXCEPT !.board = remove_piece(@, sq)]
        /\ last' = Some([before |-> pos, op |-> "remove_piece", sq |-> sq,
                         piece |-> pos.board.squares[sq]])
        /\ UNCHANGED <<generated, status, search>>

NextBoard == PutPiece \/ RemovePiece

SpecBoard == InitBoard /\ [][NextBoard]_vars

(***************************************************************************)
(* is_repetition() on a Position whose public fields hash and history hold *)
(* any hashes: history is a Vec<u64> of up to MaxHistory entries.  last    *)
(* records the value returned.                                             *)
(***************************************************************************)
MaxHistory == 5

\* two hash values: the hash of Position::startpos() and of Position::empty()
HashValues == {startpos.hash, EmptyPosition.hash}

Histories == UNION {[1..n -> HashValues] : n \in 0..MaxHistory}

InitRepetition ==
    /\ \E h \in HashValues, hist \in Histories :
          pos = [startpos EXCEPT !.hash = h,
                                 !.history = hist,
                                 !.ply = Len(hist),
                                 !.side_to_move = IF Len(hist) % 2 = 0 THEN Black
                                                  ELSE White]
    /\ generated = None
    /\ status = "ok"
    /\ last = None
    /\ search = None

IsRepetition ==
    /\ last = None
    /\ last' = Some([before |-> pos, op |-> "is_repetition",
                     result |-> is_repetition(pos)])
    /\ UNCHANGED <<pos, generated, status, search>>

NextRepetition == IsRepetition

SpecRepetition == InitRepetition /\ [][NextRepetition]_vars

(***************************************************************************)
(* The move encoding: Move::normal and Move::drop applied to every square, *)
(* promotion flag and droppable piece type; last records the arguments and *)
(* the encoded move.                                                       *)
(***************************************************************************)
InitMove ==
    /\ pos = EmptyPosition
    /\ generated = None
    /\ status = "ok"
    /\ last = None
    /\ search = None

EncodeNormal ==
    /\ last = None
    /\ \E from \in Squares, to \in Squares, promote \in BOOLEAN :
          last' = Some([op |-> "normal", from |-> from, to |-> to,
                        promote |-> promote, mv |-> MoveNormal(from, to, promote)])
    /\ UNCHANGED <<pos, generated, status, search>>

EncodeDrop ==
    /\ last = None
    /\ \E piece_type \in PieceTypes \ {King}, to \in Squares :
          last' = Some([op |-> "drop", piece_type |-> piece_type, to |-> to,
                        mv |-> MoveDrop(piece_type, to)])
    /\ UNCHANGED <<pos, generated, status, search>>

NextMove == EncodeNormal \/ EncodeDrop

SpecMove == InitMove /\ [][NextMove]_vars

(***************************************************************************)
(* Claims about the hash of the positions of a game (Spec)                 *)
(***************************************************************************)
(* The two rooks walking round three squares each from the start position: *)
(* the games in which a position comes back after four and after six       *)
(* plies.  The record of the last move keeps the positions met so far.     *)
(***************************************************************************)
MaxCyclePly == 14

\* Black's rook and the two squares beside it, White's rook likewise
CycleSquares ==
    {Sq(7, 1), Sq(6, 1), Sq(5, 1), Sq(1, 7), Sq(2, 7), Sq(3, 7)}

\* what makes two positions the same position: placement, hands, side to move
PositionKey(p) ==
    [squares |-> p.board.squares, hands |-> p.hands, side_to_move |-> p.side_to_move]

\* do_move(mv) for a generated rook move on the cycle squares
PlayCycle ==
    /\ status = "ok"
    /\ pos.ply < MaxCyclePly
    /\ IsSome(generated)
    /\ \E mv \in Range(Unwrap(generated).moves) :
          /\ MoveTo(mv) \in CycleSquares
          /\ IsSome(MoveFrom(mv)) /\ Unwrap(MoveFrom(mv)) \in CycleSquares
          /\ LET r == do_move(pos, mv)
             IN  /\ pos' = r.pos
                 /\ status' = IF r.ok THEN "ok" ELSE r.why
                 /\ last' = Some([mv |-> mv, before |-> pos,
                                  earlier |-> (IF IsSome(last) THEN Unwrap(last).earlier
                                               ELSE <<>>) \o <<PositionKey(pos)>>])
    /\ generated' = None
    /\ UNCHANGED search

NextCycle == Generate \/ PlayCycle

SpecCycle == Init /\ [][NextCycle]_vars

(***************************************************************************)

\* C1: in every position reached from the start position by applying moves
\* returned by generate_all, the incrementally maintained hash field equals
\* the value zobrist_hash() computes from scratch for that position.
C1_HashEqualsScratchHash ==
    status = "ok" => pos.hash = zobrist_hash(pos)

(***************************************************************************)
(* What the claims mean by "attacks": a piece attacks the squares the move *)
(* generators let a piece of its kind and colour step or slide to from its *)
(* square (attacks.rs tables and rays), whoever stands there.              *)
(***************************************************************************)
Forward(color) == IF color = Black THEN South ELSE North

Attacks(piece, from, occupied) ==
    LET pt == piece.piece_type
        c == piece.color
    IN  IF pt = King THEN king_attacks(from)
        ELSE IF pt = Rook \/ pt = Bishop
        THEN sliding_attacks(from, occupied, pt)
             \cup (IF piece.promoted THEN king_attacks(from) ELSE {})
        ELSE IF pt = Gold \/ piece.promoted THEN gold_attacks(from, c)
        ELSE IF pt = Silver THEN silver_attacks(from, c)
        ELSE IF pt = Knight THEN knight_attacks(from, c)
        ELSE IF pt = Lance THEN ray_attacks(from, Forward(c), occupied)
        ELSE pawn_attacks(from, c)

\* the squares of the pieces of colour `by` that attack sq when the squares of
\* `occupied` are the occupied ones
AttackersUnder(board, sq, by, occupied) ==
    {s \in board.occupied_bb[by] :
        sq \in Attacks(Unwrap(board.squares[s]), s, occupied)}

Attackers(board, sq, by) == AttackersUnder(board, sq, by, board.all_bb)

\* the king of `color` stands on an attacked square
KingAttacked(board, color) ==
    /\ board.piece_bb[color][King] # {}
    /\ Attackers(board, Unwrap(king_square(board, color)), Opposite(color)) # {}

\* the side that made the last move, and the position it moved in
Mover == Unwrap(last).before.side_to_move
Moved == IsSome(last) /\ status = "ok"

(***************************************************************************)
(* Claims about move generation: legality in the game from the start      *)
(* position (Spec), the others on set-up positions (SpecPos)               *)
(***************************************************************************)

\* C2: every move generate_all returns is strictly legal: after do_move
\* applies it, the king of the side that moved is not attacked by any
\* enemy piece.
C2_GeneratedMovesAreLegal ==
    Moved => ~KingAttacked(pos.board, Mover)

\* C3: no move generate_all returns has the opposing King's square as its
\* destination, also when the side to move is in double check, so do_move
\* never reaches its king-capture abort on a generated move.
C3_NoKingCapture ==
    /\ status # "capture king"
    /\ IsSome(generated) =>
          \A i \in 1..Len(Unwrap(generated).moves) :
              MoveTo(Unwrap(generated).moves[i]) \notin
                  pos.board.piece_bb[Opposite(pos.side_to_move)][King]

\* the generated list, and the side it was generated for
Moves == Unwrap(generated).moves
Us == pos.side_to_move
Them == Opposite(pos.side_to_move)
OurKing == Unwrap(king_square(pos.board, Us))

\* the enemy pieces that attack the mover's king
TrueCheckers == Attackers(pos.board, OurKing, Them)

\* the squares strictly between two squares of a common rank, file or diagonal
Between(sq1, sq2) == IF is_aligned(sq1, sq2) /\ sq1 # sq2 THEN between_bb(sq1, sq2) ELSE {}

\* the sliding part of a lance, rook or bishop (promoted or not) of colour c on s
Slides(piece, s, occupied) ==
    IF piece.piece_type \in {Rook, Bishop}
    THEN sliding_attacks(s, occupied, piece.piece_type)
    ELSE IF piece.piece_type = Lance /\ ~piece.promoted
    THEN ray_attacks(s, Forward(piece.color), occupied)
    ELSE {}

\* the enemy sliders that pin the piece of colour c on sq to the king of c: the
\* piece is the only one strictly between that king and the slider
Pinners(board, c, sq) ==
    LET k == Unwrap(king_square(board, c))
    IN  {s \in board.occupied_bb[Opposite(c)] :
            LET pc == Unwrap(board.squares[s])
            IN  /\ k \in Slides(pc, s, {})
                /\ sq \in Between(s, k)
                /\ Between(s, k) \cap board.all_bb = {sq}}

\* C5: when exactly one enemy piece gives check, every returned move of a
\* piece other than the king, whatever its type, has its destination strictly
\* between the checker and the king or on the checker's own square.
C5_SingleCheckEvasions ==
    (IsSome(generated) /\ Cardinality(TrueCheckers) = 1) =>
        \A i \in 1..Len(Moves) :
            (IsSome(MoveFrom(Moves[i])) /\ MoveFrom(Moves[i]) # Some(OurKing)) =>
                \E ch \in TrueCheckers :
                    MoveTo(Moves[i]) \in Between(ch, OurKing) \cup {ch}

\* C6: every returned move of a pinned piece of any type (the mover's piece
\* that is the only piece strictly between its king and an aligned enemy
\* lance, rook or bishop) has its destination on the pin ray: strictly
\* between king and pinner, or on the pinner's square.
C6_PinnedPiecesStayOnRay ==
    IsSome(generated) =>
        \A i \in 1..Len(Moves) :
            (IsSome(MoveFrom(Moves[i])) /\ MoveFrom(Moves[i]) # Some(OurKing)) =>
                \A s \in Pinners(pos.board, Us, Unwrap(MoveFrom(Moves[i]))) :
                    MoveTo(Moves[i]) \in Between(s, OurKing) \cup {s}

\* C7: when two or more enemy pieces attack the mover's king, generate_all
\* returns only king moves: no move of another piece and no drop.
C7_DoubleCheckOnlyKingMoves ==
    (IsSome(generated) /\ Cardinality(TrueCheckers) >= 2) =>
        \A i \in 1..Len(Moves) : MoveFrom(Moves[i]) = Some(OurKing)

\* C8: after MoveGen::new(pos), checkers is exactly the set of squares of
\* the enemy pieces that attack the mover's king under the current
\* occupancy, for every kind of enemy piece and both colours of mover.
C8_CheckersAreTheAttackers ==
    IsSome(generated) => Unwrap(generated).checkers = TrueCheckers

\* the pieces of colour c pinned to their king by a lance, rook or bishop
PinnedPieces(board, c) ==
    IF board.piece_bb[c][King] = {} THEN {}
    ELSE {s \in board.occupied_bb[c] : Pinners(board, c, s) # {}}

FarRank(c) == IF c = Black THEN 8 ELSE 0
EmptySquares == Squares \ pos.board.all_bb
InHand(pt) == pos.hands[Us][hand_idx(pt)]

\* the empty squares a pawn may be dropped on, the drop-pawn-mate rule aside
PawnDropCandidates ==
    {to \in EmptySquares :
        /\ Rank(to) # FarRank(Us)
        /\ \A s \in pos.board.piece_bb[Us][Pawn] \ pos.board.promoted_bb :
              File(s) # File(to)}

\* the four conditions of the drop-pawn-mate rule for a pawn dropped on `to`
GivesCheck(to) ==
    /\ has_king(pos, Them)
    /\ Unwrap(king_square(pos.board, Them)) \in pawn_attacks(to, Us)

Supported(to) == Attackers(pos.board, to, Us) # {}

CanBeCaptured(to) ==
    \E s \in Attackers(pos.board, to, Them) \ PinnedPieces(pos.board, Them) :
        Unwrap(pos.board.squares[s]).piece_type \notin {King, Pawn, Lance}

KingCannotEscape(to) ==
    LET k == Unwrap(king_square(pos.board, Them))
    IN  \A e \in (king_attacks(k) \ pos.board.occupied_bb[Them]) \ {to} :
            AttackersUnder(pos.board, e, Us, pos.board.all_bb \cup {to}) # {}

DropPawnMate(to) ==
    GivesCheck(to) /\ Supported(to) /\ ~CanBeCaptured(to) /\ KingCannotEscape(to)

\* the squares generate_all returned a drop of a piece of type pt on
DropSquares(pt) ==
    {MoveTo(Moves[i]) :
        i \in {j \in 1..Len(Moves) : is_drop(Moves[j]) /\ drop_piece_type(Moves[j]) = pt}}

\* C9: a pawn drop onto an otherwise valid empty square is left out of
\* generate_all if and only if all four hold: the pawn gives check, another
\* piece of the mover supports the square, no unpinned opposing piece other
\* than king, pawn or lance can capture on it, and the opposing king has no
\* escape square.
C9_DropPawnMateExactly ==
    (IsSome(generated) /\ TrueCheckers = {} /\ InHand(Pawn) >= 1) =>
        \A to \in PawnDropCandidates :
            (to \notin DropSquares(Pawn)) <=> DropPawnMate(to)

\* the squares the claim allows a piece of type pt to be dropped on
AllowedDropSquares(pt) ==
    IF pt = Pawn THEN {to \in PawnDropCandidates : ~DropPawnMate(to)}
    ELSE IF pt = Lance THEN {to \in EmptySquares : Rank(to) # FarRank(Us)}
    ELSE IF pt = Knight
    THEN {to \in EmptySquares : Abs(Rank(to) - FarRank(Us)) >= 2}
    ELSE EmptySquares

\* C10: when the mover is not in check, the drops returned for a piece type
\* held in hand are exactly the empty squares minus, for pawns, the files
\* holding one of the mover's unpromoted pawns (a file holding only a
\* promoted pawn stays available), the farthest rank and the drop-pawn-mate
\* square; for lances the farthest rank; for knights the two farthest ranks;
\* nothing is dropped of a type not in hand or onto an occupied square.
C10_DropSquares ==
    (IsSome(generated) /\ TrueCheckers = {}) =>
        \A pt \in PieceTypes \ {King} :
            DropSquares(pt) = IF InHand(pt) >= 1 THEN AllowedDropSquares(pt) ELSE {}

(***************************************************************************)
(* Claims about the search (SpecSearch)                                    *)
(***************************************************************************)
Limits == Unwrap(search).limits
Result == Unwrap(Unwrap(search).result)
\* search() has returned
Searched ==
    /\ IsSome(search)
    /\ IsSome(Unwrap(search).result)
    /\ Result.panic = ""

\* C4: if the node limit or the time limit trips while the iteration for
\* depth d is running, search returns the result of the last fully
\* completed iteration, depth d-1: its best move, its score and its
\* principal variation, and nothing computed in the interrupted iteration.
C4_ResultOfLastCompletedIteration ==
    (Searched /\ Result.tripped /\ Result.interrupted >= 2) =>
        LET kept == Result.iters[Result.interrupted - 1]
        IN  /\ Result.score = kept.score
            /\ Result.pv = kept.pv
            /\ Result.best_move = IF kept.pv = <<>> THEN None ELSE Some(kept.pv[1])

(***************************************************************************)
(* Claims about promotion (SpecPos)                                        *)
(***************************************************************************)
PromotionZone(c) == IF c = Black THEN 6..8 ELSE 0..2

\* a piece of this kind could never move again from `to`
CannotMoveFrom(piece, to) ==
    \/ piece.piece_type \in {Pawn, Lance} /\ Rank(to) = FarRank(piece.color)
    \/ piece.piece_type = Knight /\ Abs(Rank(to) - FarRank(piece.color)) <= 1

\* the promotion flags the claim gives the moves of `piece` from `from` to `to`
PromotionFlags(piece, from, to) ==
    IF piece.promoted \/ piece.piece_type \in {King, Gold} THEN {FALSE}
    ELSE IF CannotMoveFrom(piece, to) THEN {TRUE}
    ELSE IF Rank(from) \in PromotionZone(piece.color)
            \/ Rank(to) \in PromotionZone(piece.color)
    THEN {TRUE, FALSE}
    ELSE {FALSE}

\* the places in the returned list of the moves from `from` to `to`
MovesFromTo(from, to) ==
    {j \in 1..Len(Moves) : MoveFrom(Moves[j]) = Some(from) /\ MoveTo(Moves[j]) = to}

\* the candidate destinations of the unpromoted pawn, lance, knight, silver,
\* rook or bishop on `from`: the squares it attacks that hold no piece of the
\* mover (the opposing king's square is never a destination)
Candidates(from) ==
    LET piece == Unwrap(pos.board.squares[from])
    IN  (Attacks(piece, from, pos.board.all_bb) \ pos.board.occupied_bb[Us])
            \ pos.board.piece_bb[Them][King]

Promotable ==
    {s \in pos.board.occupied_bb[Us] :
        LET piece == Unwrap(pos.board.squares[s])
        IN  ~piece.promoted /\ piece.piece_type \notin {King, Gold}}

C12_NoDropsInCheck ==
    (IsSome(generated) /\ TrueCheckers # {}) =>
        \A i \in 1..Len(Moves) : ~is_drop(Moves[i])

(***************************************************************************)
(* Claims about the bookkeeping of do_move (Spec)                          *)
(***************************************************************************)
Before == Unwrap(last).before

\* C13: every do_move, of a drop and of a normal move alike, appends to
\* history exactly one entry, the hash the position had before the move,
\* flips side_to_move and increases ply by exactly 1; so after n moves from
\* the freshly constructed start position ply = n, history has n entries and
\* Black is to move iff n is even.
C13_HistorySideAndPly ==
    /\ Moved =>
          /\ pos.history = Append(Before.history, Before.hash)
          /\ pos.side_to_move = Opposite(Before.side_to_move)
          /\ pos.ply = Before.ply + 1
    /\ status = "ok" =>
          /\ Len(pos.history) = pos.ply
          /\ pos.side_to_move = (IF pos.ply % 2 = 0 THEN Black ELSE White)

\* a drop has just been applied, after normal moves of both sides
C13_Witness ==
    /\ Moved
    /\ is_drop(Unwrap(last).mv)
    /\ pos.ply >= 3
    /\ Len(pos.history) = pos.ply

(***************************************************************************)
(* Claims about captures (SpecPos)                                         *)
(***************************************************************************)
LastMove == Unwrap(last).mv
\* the piece the last move found on its destination, if any
Captured == Before.board.squares[MoveTo(LastMove)]
\* do_move was called with a normal move onto an opposing piece other than a king
CaptureApplied ==
    /\ IsSome(last)
    /\ ~is_drop(LastMove)
    /\ IsSome(Captured)
    /\ Unwrap(Captured).color # Before.side_to_move
    /\ Unwrap(Captured).piece_type # King

\* what the claim says of the position after the capture
CaptureEffect ==
    LET from == Unwrap(MoveFrom(LastMove))
        to == MoveTo(LastMove)
        us == Before.side_to_move
        moving == Unwrap(Before.board.squares[from])
        captured == Unwrap(Captured)
    IN  /\ pos.board.occupied_bb[Opposite(us)] = Before.board.occupied_bb[Opposite(us)] \ {to}
        /\ \A c \in Colors : \A i \in HandIdx :
              pos.hands[c][i] =
                  Before.hands[c][i]
                  + (IF c = us /\ i = hand_idx(captured.piece_type) THEN 1 ELSE 0)
        /\ pos.board.squares[from] = None
        /\ from \notin pos.board.all_bb
        /\ pos.board.squares[to] =
              Some([piece_type |-> moving.piece_type, color |-> us,
                    promoted |-> moving.promoted \/ is_promote(LastMove)])

\* C14: when do_move applies a normal move onto an opposing piece other than
\* a king, promoted or not, the piece leaves the board, the mover's hand
\* count of its base type rises by exactly 1, no other hand count changes,
\* the source square becomes empty and the moving piece stands on the
\* destination, promoted iff it was promoted or the move promotes.
C14_CaptureGoesToHand ==
    CaptureApplied => CaptureEffect

(***************************************************************************)
(* Claims about the Board under put_piece and remove_piece (SpecBoard)     *)
(***************************************************************************)
\* the piece bitboards that hold the square, as <<color, piece type>> pairs
BitboardsHolding(board, sq) ==
    {ck \in Colors \X PieceTypes : sq \in board.piece_bb[ck[1]][ck[2]]}

SquaresAgree(board) ==
    \A sq \in Squares :
        LET cached == board.squares[sq]
        IN  /\ BitboardsHolding(board, sq) =
                  (IF IsSome(cached)
                   THEN {<<Unwrap(cached).color, Unwrap(cached).piece_type>>}
                   ELSE {})
            /\ sq \in board.promoted_bb <=>
                  (IsSome(cached) /\ Unwrap(cached).promoted)

OccupancyAgrees(board) ==
    /\ \A c \in Colors :
          board.occupied_bb[c] = UNION {board.piece_bb[c][pt] : pt \in PieceTypes}
    /\ board.all_bb = board.occupied_bb[Black] \cup board.occupied_bb[White]

\* C15: after any run of put_piece and remove_piece calls on a Board,
\* put_piece onto an occupied square included, squares[s] is Some(p) exactly
\* when bit s is set in piece_bb[p.color][p.piece_type] and in no other piece
\* bitboard, occupied_bb[c] is the union of that colour's piece bitboards,
\* all_bb is the union of the two, and the promoted_bb bit is set exactly on
\* the squares holding a promoted piece.
C15_SquaresCacheAgrees == SquaresAgree(pos.board) /\ OccupancyAgrees(pos.board)

(***************************************************************************)
(* Claims about is_repetition (SpecRepetition)                             *)
(***************************************************************************)
\* the number of entries of history equal to the current hash
Occurrences(p) == Cardinality({i \in 1..Len(p.history) : p.history[i] = p.hash})

RepetitionAsked == IsSome(last) /\ Unwrap(last).op = "is_repetition"

EntriesAfterTrip == Result.nodes - Result.tripped_at

\* C17: once should_stop has returned true for the first time, at most one
\* further alpha_beta entry happens before search returns; with a node limit
\* N the node count of the result never exceeds N + 1.
C17_AtMostOneNodePastLimit ==
    /\ (Searched /\ Result.tripped) => EntriesAfterTrip <= 1
    /\ (Searched /\ IsSome(Limits.nodes)) => Result.nodes <= Unwrap(Limits.nodes) + 1

\* the positions k plies below the searched position, k = 0 or 1: the root,
\* and the positions alpha_beta makes with do_move from the root's moves
SearchTree(k) ==
    IF k = 0 THEN {pos}
    ELSE {do_move(pos, mv).pos :
             mv \in {m \in Range(generate_all(pos).moves) : do_move(pos, m).ok}}

NoLegalMoves(q) ==
    /\ has_king(q, q.side_to_move)
    /\ generate_all(q).ok
    /\ generate_all(q).moves = <<>>

NeverTrips == Limits.nodes = None /\ Limits.time = None

\* the value alpha_beta returns at q, k plies below the root, in the
\* iteration of depth d
ReturnedAt(q, d, k) ==
    alpha_beta(Limits, NewSearcher, q, d - k, -Infinity, Infinity).score

\* C18: in every iteration of iterative deepening, alpha_beta at a position
\* with no legal moves returns -30000 + p when the mover is in check, p being
\* the number of plies between the search root and the position, and 0 when
\* the mover is not in check.
C18_MateScoreCountsPliesFromRoot ==
    (Searched /\ NeverTrips) =>
        \A d \in 1..Limits.depth : \A k \in 0..Min(1, d - 1) :
            \A q \in SearchTree(k) :
                NoLegalMoves(q) =>
                    ReturnedAt(q, d, k) =
                        (IF KingAttacked(q.board, q.side_to_move)
                         THEN -Infinity + k ELSE 0)

\* a move after which the mover's own king is not attacked
LeavesKingSafe(p, mv) ==
    /\ do_move(p, mv).ok
    /\ ~KingAttacked(do_move(p, mv).pos.board, p.side_to_move)

\* the steps of the mover's king to a square that holds no piece of the mover
\* and not the opposing king
KingSteps(p) ==
    LET us == p.side_to_move
        from == Unwrap(king_square(p.board, us))
    IN  {MoveNormal(from, to, FALSE) :
            to \in (king_attacks(from) \ p.board.occupied_bb[us])
                       \ p.board.piece_bb[Opposite(us)][King]}

\* the position has a legal move: a returned move or a king step that leaves
\* the mover's king safe
HasLegalMove(p) ==
    /\ has_king(p, p.side_to_move)
    /\ \E mv \in KingSteps(p) \cup Range(generate_all(p).moves) : LeavesKingSafe(p, mv)

SearchCalled == IsSome(search) /\ IsSome(Unwrap(search).result)

\* C19: for a position with at least one legal move and limits that never
\* trip, search returns best_move = Some(m) with m one of the moves
\* generate_all returns for the position, and a node count greater than 0.
C19_BestMoveIsAGeneratedMove ==
    (SearchCalled /\ NeverTrips /\ HasLegalMove(pos)) =>
        /\ Result.panic = ""
        /\ IsSome(Result.best_move)
        /\ Unwrap(Result.best_move) \in Range(generate_all(pos).moves)
        /\ Result.nodes > 0

\* the second run of the same search has returned
SearchedTwice == Searched /\ IsSome(Unwrap(search).again)
Again == Unwrap(Unwrap(search).again)

\* C20: two runs of search on equal positions with equal limits (depth, time,
\* nodes) return the same best move, score, node count and principal
\* variation.
C20_SearchIsDeterministic ==
    SearchedTwice =>
        /\ Again.best_move = Result.best_move
        /\ Again.score = Result.score
        /\ Again.nodes = Result.nodes
        /\ Again.pv = Result.pv

(***************************************************************************)
(* Claims about the start position and the move encoding (Spec)            *)
(***************************************************************************)
\* generate_all has returned for Position::startpos()
StartGenerated == IsSome(generated) /\ pos = startpos

\* C21: generate_all on Position::startpos() returns exactly 30 moves, none
\* of them a drop.
C21_StartposThirtyMoves ==
    StartGenerated =>
        /\ Len(Moves) = 30
        /\ \A i \in 1..Len(Moves) : ~is_drop(Moves[i])

C21_Witness == StartGenerated /\ Len(Moves) = 30

Encoded == Unwrap(last)
NormalEncoded == IsSome(last) /\ Encoded.op = "normal"
DropEncoded == IsSome(last) /\ Encoded.op = "drop"

\* every input of Move::normal or Move::drop that gives the same 16-bit value
\* as the recorded call is the recorded input
OnlyInputOf(mv) ==
    /\ \A from \in Squares, to \in Squares, promote \in BOOLEAN :
          MoveNormal(from, to, promote) = mv =>
              /\ NormalEncoded
              /\ <<from, to, promote>> = <<Encoded.from, Encoded.to, Encoded.promote>>
    /\ \A piece_type \in PieceTypes \ {King}, to \in Squares :
          MoveDrop(piece_type, to) = mv =>
              /\ DropEncoded
              /\ <<piece_type, to>> = <<Encoded.piece_type, Encoded.to>>

\* C22: Move::normal(from, to, promote) decodes to from() = Some(from),
\* to() = to, is_promote() = promote, is_drop() = false; Move::drop(pt, to)
\* decodes to is_drop() = true, from() = None, to() = to,
\* drop_piece_type() = pt, is_promote() = false; the encoded value fits 16
\* bits and no two different inputs give the same value.
C22_MoveEncodingRoundTrips ==
    /\ NormalEncoded =>
          /\ MoveFrom(Encoded.mv) = Some(Encoded.from)
          /\ MoveTo(Encoded.mv) = Encoded.to
          /\ is_promote(Encoded.mv) = Encoded.promote
          /\ ~is_drop(Encoded.mv)
    /\ DropEncoded =>
          /\ is_drop(Encoded.mv)
          /\ MoveFrom(Encoded.mv) = None
          /\ MoveTo(Encoded.mv) = Encoded.to
          /\ drop_piece_type(Encoded.mv) = Encoded.piece_type
          /\ ~is_promote(Encoded.mv)
    /\ IsSome(last) => (Encoded.mv \in 0..65535 /\ OnlyInputOf(Encoded.mv))

C22_Witness ==
    /\ DropEncoded
    /\ Encoded.piece_type = Pawn
    /\ Encoded.to = 80
    /\ drop_piece_type(Encoded.mv) = Pawn

(***************************************************************************)
(* Claims about do_move along the game from the start position (Spec)      *)
(***************************************************************************)
\* the last do_move did not return: a Zobrist table index outside the table,
\* an empty source square, a hand count below zero, or a captured king
DoMoveAborted ==
    status \in {"zobrist index", "no piece on source", "hand count underflow",
                "capture king"}

\* C23: do_move of a move generate_all returned for the position always
\* completes, in every position reachable from the start position by such
\* moves: every Zobrist lookup uses a piece-kind index inside the table, also
\* for a promoted lance or pawn, the source square holds the mover's piece
\* and no hand count underflows.
C23_DoMoveCompletes == ~DoMoveAborted

(***************************************************************************)
(* Claims about the value and the line the search returns (SpecSearch)     *)
(***************************************************************************)
RECURSIVE negamax(_, _, _)


\* plain negamax over the tree the search walks: every move of generate_all
\* is searched to the full depth, nothing is pruned.  The value is
\* [score, nodes, ok]: nodes counts the positions visited, ok is FALSE when
\* a do_move or generate_all of the full tree does not return.
negamax_folded(subs) ==
    [score |-> SetMax({-subs[i].score : i \in DOMAIN subs}),
     nodes |-> 1 + Sum([i \in DOMAIN subs |-> subs[i].nodes]),
     ok |-> \A i \in DOMAIN subs : subs[i].ok]

\* the value of the position a move leads to; not ok when do_move aborts
negamax_moved(moved, depth, ply) ==
    IF ~moved.ok THEN [score |-> 0, nodes |-> 0, ok |-> FALSE]
    ELSE negamax(moved.pos, depth, ply)

negamax_generated(p, depth, ply, checkers, list) ==
    IF ~list.ok THEN [score |-> 0, nodes |-> 1, ok |-> FALSE]
    ELSE IF list.moves = <<>>
    THEN [score |-> IF checkers # {} THEN -Infinity + ply ELSE 0,
          nodes |-> 1, ok |-> TRUE]
    ELSE negamax_folded([i \in 1..Len(list.moves) |->
                            negamax_moved(do_move(p, list.moves[i]),
                                          depth - 1, ply + 1)])

negamax_gen(p, depth, ply, gen) ==
    negamax_generated(p, depth, ply, gen.checkers, generate_all_with(p, gen))

\* the negamax value of p, `ply` plies below the root, searched `depth` deep
negamax(p, depth, ply) ==
    IF depth = 0 THEN [score |-> evaluate(p), nodes |-> 1, ok |-> TRUE]
    ELSE IF ~has_king(p, p.side_to_move)
    THEN [score |-> 0, nodes |-> 1, ok |-> FALSE]
    ELSE negamax_gen(p, depth, ply, MoveGenNew(p))

\* the full tree of the searched position at the depth of the limits
FullTree == negamax(pos, Limits.depth, 0)

\* C24: with no time limit and no node limit the score search returns equals
\* the plain negamax value of the root at depth limits.depth, with evaluate
\* at depth 0 and the mate and stalemate scores at positions without moves:
\* pruning with the root window (-30000, 30000) never changes the root value.
C24_AlphaBetaEqualsNegamax ==
    (Searched /\ NeverTrips /\ FullTree.ok) => Result.score = FullTree.score

\* a search of depth 2 that visited fewer positions than the full trees of
\* its two iterations: some move was pruned
C24_Witness ==
    /\ Searched /\ NeverTrips /\ FullTree.ok
    /\ Limits.depth = 2
    /\ Result.nodes < negamax(pos, 1, 0).nodes + FullTree.nodes
    /\ Result.score = FullTree.score

RECURSIVE IsLineOfPlay(_, _)
\* every move of the line is among the moves generate_all returns for the
\* position reached by the moves before it
IsLineOfPlay(p, line) ==
    \/ line = <<>>
    \/ /\ has_king(p, p.side_to_move)
       /\ Head(line) \in Range(generate_all(p).moves)
       /\ do_move(p, Head(line)).ok
       /\ IsLineOfPlay(do_move(p, Head(line)).pos, Tail(line))

\* C25: in every SearchResult, whether or not a limit tripped, stats.pv is a
\* line of play from the searched position, and best_move is present exactly
\* when stats.pv is non-empty, in which case it is stats.pv[0].
C25_PvIsALineAndBestMoveItsHead ==
    Searched =>
        /\ IsLineOfPlay(pos, Result.pv)
        /\ IsSome(Result.best_move) <=> Result.pv # <<>>
        /\ Result.pv # <<>> => Result.best_move = Some(Result.pv[1])

(***************************************************************************)
(* Claims about the termination of move generation (SpecPos)               *)
(***************************************************************************)
\* C26: MoveGen::new followed by generate_all terminates and returns a move
\* list for every position in which the side to move has a king, also when
\* the single checker is not on a common file, rank or diagonal with the
\* king (a knight) while the mover owns a gold or a gold-moving promoted
\* piece.
C26_GenerateAllReturns == status # "generate_all does not return"

(***************************************************************************)
(* Claims about the king's moves (SpecPos)                                 *)
(***************************************************************************)
\* the squares next to the mover's king that hold no piece of the mover, not
\* the opposing king, and that no enemy piece attacks once the king stands
\* there: the occupancy has the king moved, a piece captured there is gone
SafeKingSteps ==
    {to \in (king_attacks(OurKing) \ pos.board.occupied_bb[Us])
                \ pos.board.piece_bb[Them][King] :
        AttackersUnder(pos.board, to, Them,
                       (pos.board.all_bb \ {OurKing}) \cup {to}) \ {to} = {}}

\* C27: generate_all includes the king move to every safe square next to the
\* king, also when the king is in check from a rook, a bishop or a lance.
C27_SafeKingStepsGenerated ==
    IsSome(generated) =>
        \A to \in SafeKingSteps : MoveNormal(OurKing, to, FALSE) \in Range(Moves)

(***************************************************************************)
(* Claims about the material along a game (Spec)                           *)
(***************************************************************************)
\* the pieces of one type on the board, both colours, promoted or not
PiecesOnBoard(pt) ==
    Cardinality(pos.board.piece_bb[Black][pt] \cup pos.board.piece_bb[White][pt])

Material(pt) ==
    PiecesOnBoard(pt) + pos.hands[Black][hand_idx(pt)] + pos.hands[White][hand_idx(pt)]

StartMaterial(pt) ==
    CASE pt \in {Rook, Bishop} -> 2
      [] pt \in {Gold, Silver, Knight, Lance} -> 4
      [] pt = Pawn -> 18

\* C28: in every position reached from the start position by generated
\* moves, for each of the seven types other than the king the pieces of
\* that type on the board plus the two hand counts equal the number the
\* game started with (2 rooks, 2 bishops, 4 golds, 4 silvers, 4 knights,
\* 4 lances, 18 pawns), and each side has exactly one king on the board.
C28_MaterialConserved ==
    /\ \A pt \in PieceTypes \ {King} : Material(pt) = StartMaterial(pt)
    /\ \A c \in Colors : Cardinality(pos.board.piece_bb[c][King]) = 1

\* a capture has gone to a hand and a piece has come back by a drop
C28_Witness ==
    /\ Moved
    /\ is_drop(LastMove)
    /\ \E pt \in PieceTypes \ {King} : pos.hands[Mover][hand_idx(pt)] > 0
    /\ C28_MaterialConserved

(***************************************************************************)
(* Claims about the board structures along a game (Spec)                   *)
(***************************************************************************)
\* the board on which do_move calls put_piece: for a drop the board before
\* the move, for a normal move the board after the piece has left its source
\* and the captured piece, if any, has been removed
BoardAtPut ==
    IF is_drop(LastMove) THEN Before.board
    ELSE LET b1 == remove_piece(Before.board, Unwrap(MoveFrom(LastMove)))
         IN  IF IsSome(piece_on(b1, MoveTo(LastMove)))
             THEN remove_piece(b1, MoveTo(LastMove))
             ELSE b1

PutOnEmptySquare ==
    /\ piece_on(BoardAtPut, MoveTo(LastMove)) = None
    /\ MoveTo(LastMove) \notin BoardAtPut.all_bb

\* C29: in every position reached from the start position by generated
\* moves, each occupied square is in exactly one of the 16 piece bitboards,
\* the one of the cached piece's colour and type, and each empty square in
\* none; occupied_bb and all_bb are the unions of the piece bitboards;
\* promoted_bb holds exactly the squares whose cached piece is promoted;
\* and do_move never calls put_piece on an occupied square.
C29_BoardStructuresAgree ==
    /\ SquaresAgree(pos.board)
    /\ OccupancyAgrees(pos.board)
    /\ Cardinality({ck \in Colors \X PieceTypes : TRUE}) = 16
    /\ Moved => PutOnEmptySquare

\* a promoted piece stands on the board after a capture
C29_Witness ==
    /\ Moved
    /\ IsSome(Captured)
    /\ pos.board.promoted_bb # {}
    /\ C29_BoardStructuresAgree

(***************************************************************************)
(* Claims about is_repetition along a game (SpecCycle)                     *)
(***************************************************************************)
\* the positions the game has been in before the current one
Earlier == IF IsSome(last) THEN Unwrap(last).earlier ELSE <<>>

EarlierOccurrences ==
    Cardinality({i \in 1..Len(Earlier) : Earlier[i] = PositionKey(pos)})

\* C30: along any sequence of generated moves from the start position,
\* whenever the current position (placement, hands, side to move) has
\* already occurred at least three times earlier, is_repetition() returns
\* true, whatever the number of plies between the occurrences.
C30_FourthOccurrenceIsRepetition ==
    EarlierOccurrences >= 3 => is_repetition(pos)

====
